---------------------------- MODULE Spec2Model ----------------------------
(***************************************************************************)
(* Model of the Canvas daily planner (planners/daily-canvas-planner.py):   *)
(* the collector get_canvas_all_items with its in-line de-duplication, the *)
(* instance loop of main, and the due-date window filter                   *)
(* filter_due_next_3_days.                                                 *)
(*                                                                         *)
(* Python strings are sequences of one-character strings, so that the      *)
(* f-string that builds the de-duplication key is a real concatenation.    *)
(* JSON objects are functions from key names to values; a missing key is   *)
(* a key outside the DOMAIN, a null is the value None.                     *)
(***************************************************************************)
EXTENDS Integers, Sequences, FiniteSets, TLC

VARIABLES
    pc,                   \* control point of main / get_canvas_all_items
    inst,                 \* index of the instance main's loop is at
    all_assignments,      \* main: the aggregated list
    assignments,          \* main: the value get_canvas_all_items returned
    all_items,            \* get_canvas_all_items: items collected so far
    seen_items,           \* get_canvas_all_items: the set of keys seen
    planner_items,        \* get_canvas_all_items: body of the planner response
    courses,              \* get_canvas_all_items: courses still to iterate
    course_assignments,   \* get_canvas_all_items: body of the last assignments response
    status_code,          \* status of the last HTTP response received
    listA, listB, listC,  \* merge check: three item lists
    merged_once,          \* merge check: the three lists merged in one pass
    merged_nested,        \* merge check: the first two merged, then merged with the third
    now,                  \* filter_due_next_3_days: the instant datetime.now returned (UTC seconds)
    due_soon,             \* main: the list filter_due_next_3_days returned
    raw_record,           \* classification: a record of a source response
    work_item,            \* classification: the assignment dict built from it
    major_test,           \* classification: the outcome of is_major_test
    priority_symbol,      \* classification: the outcome of get_priority_symbol
    system_today,         \* get_priority_symbol: datetime.now().date(), a day number
    exam_date,            \* study guide: the exam's due_datetime_parsed
    all_modules,          \* get_modules_before_exam: body of the modules response
    modules_before_exam,  \* get_modules_before_exam: the list returned
    all_content,          \* get_all_content_before_exam: the list returned
    quizzes,              \* get_quiz_questions: quizzes still to iterate
    all_quiz_questions,   \* get_quiz_questions: the questions collected so far
    ai_answer,            \* generate_ai_action_plan: what the completions request gives
    ai_plan,              \* generate_ai_action_plan: the dict returned
    guide_pos,            \* main: position of the study guide loops (assignment, instance)
    study_guides_generated, \* main: the entries appended for the guides written
    generate_calls,       \* main: the calls of generate_study_guide made so far
    notifications,        \* the Telegram sends attempted, in order
    send_ok,              \* the value the latest send returned, TRUE before any send
    main_error,           \* __main__: the exception that left main(), "" if none
    exit_status,          \* __main__: the status the process ended with, -1 while it runs
    update,               \* bot: the update whose handler is running
    updates_handled,      \* bot: the number of updates dispatched so far
    replies,              \* bot: the reply_text calls made, with the chat they went to
    pipeline_runs,        \* bot: the chats for which run_pipeline was started
    process,              \* run_pipeline: the subprocess
    clock,                \* seconds since the subprocess was started
    wait_started,         \* run_pipeline: the clock when process.wait was called, -1 before
    result                \* run_pipeline: the tuple returned

collectorVars == <<inst, all_assignments, assignments, all_items, seen_items,
                   planner_items, courses, course_assignments, status_code>>
mergeVars == <<listA, listB, listC, merged_once, merged_nested>>

filterVars == <<now, due_soon>>

classifyVars == <<raw_record, work_item, major_test, priority_symbol, system_today>>

curatorVars == <<exam_date, all_modules, modules_before_exam, all_content>>

quizVars == <<quizzes, all_quiz_questions>>

\* the variables of the stages after curation
planVars == <<ai_answer, ai_plan>>

runVars == <<guide_pos, study_guides_generated, generate_calls, notifications,
             send_ok, main_error, exit_status>>

botVars == <<update, updates_handled, replies, pipeline_runs, process, clock, wait_started, result>>

extVars == <<quizVars, planVars, runVars, botVars>>

vars == <<pc, collectorVars, mergeVars, filterVars, classifyVars, curatorVars, extVars>>

---------------------------------------------------------------------------
(* Bounds of the model *)

\* number of configured source instances (CANVAS_INSTANCES is configuration)
NumInstances == 2
\* longest planner / assignments response body
MaxItems == 2
\* longest course list
MaxCourses == 2
\* longest list handed to the merge check
MaxMergeLen == 2
\* longest list handed to the window filter
MaxFilterLen == 2

---------------------------------------------------------------------------
(* Python values *)

\* None: a one-element tuple whose element is no single character, so it
\* differs from every string, the string "None" included
None == <<"None">>

\* str(v) as an f-string renders it: a string is itself, None is "None"
Str(v) == IF v = None THEN <<"N", "o", "n", "e">> ELSE v

\* truthiness of a string-or-None value: None and "" are falsy
Truthy(v) == v # None /\ v # <<>>

\* dict.get(key, default): the default only when the key is missing
Get(obj, key, default) == IF key \in DOMAIN obj THEN obj[key] ELSE default

\* sequences over S of length at most n
SeqUpTo(S, n) == UNION {[1..k -> S] : k \in 0..n}

---------------------------------------------------------------------------
(* What the source instances may answer *)

RawPlannerItems ==
    LET \* planner items (raw records of /api/v1/planner/items)
        RP1 == [plannable |-> [title |-> <<"a", "_", "b">>, points_possible |-> 10,
                               html_url |-> <<"p", "1">>, description |-> <<"x">>],
                plannable_date |-> <<"c">>, context_name |-> <<"K">>]
        RP2 == [plannable |-> [title |-> <<"a">>, points_possible |-> 20,
                               html_url |-> <<"p", "2">>, description |-> <<"x">>],
                plannable_date |-> <<"b", "_", "c">>, context_name |-> <<"K">>]
        RP3 == [plannable |-> [title |-> <<"a">>, html_url |-> <<"p", "3">>],
                context_name |-> <<"K">>]
    IN
        {RP1, RP2, RP3}

\* assignments (raw records of /api/v1/courses/:id/assignments)
RA1 == [name |-> <<"a">>, due_at |-> <<"b", "_", "c">>, points_possible |-> 50,
        html_url |-> <<"e", "1">>, description |-> <<"y">>]

\* courses (raw records of /api/v1/courses)
RC1 == [id |-> 1, name |-> <<"K">>, workflow_state |-> <<"available">>]

\* HTTP statuses a request may come back with
StatusCodes == {200, 204, 404}

---------------------------------------------------------------------------
(* get_canvas_all_items *)

\* item_key = f"{assignment['name']}_{assignment['due_at']}"
ItemKey(assignment) == assignment.name \o <<"_">> \o Str(assignment.due_at)

\* a buggy variant: a key seen again is forgotten instead of kept
AddIfNewForgetting(assignment, st) ==
    IF ItemKey(assignment) \notin st.seen_items
    THEN [st EXCEPT !.seen_items = @ \cup {ItemKey(assignment)},
                    !.all_items = Append(@, assignment)]
    ELSE [st EXCEPT !.seen_items = @ \ {ItemKey(assignment)}]

\* a buggy variant: the key is never recorded
AddIfNewUntracked(assignment, st) ==
    [st EXCEPT !.all_items = Append(@, assignment)]

\* if item_key not in seen_items: seen_items.add(item_key); all_items.append(assignment)
AddIfNew(assignment, st) ==
    IF ItemKey(assignment) \notin st.seen_items
    THEN [st EXCEPT !.seen_items = @ \cup {ItemKey(assignment)},
                    !.all_items = Append(@, assignment)]
    ELSE st

\* the assignment dict built from a planner item
PlannerAssignment(item) ==
    LET plannable == Get(item, "plannable", <<>>)
    IN  [name            |-> Get(plannable, "title", <<"U", "n", "n", "a", "m", "e", "d">>),
         due_at          |-> Get(item, "plannable_date", None),
         points_possible |-> Get(plannable, "points_possible", 0),
         course_name     |-> Get(item, "context_name", <<"U", "n", "k", "n", "o", "w", "n">>),
         html_url        |-> Get(plannable, "html_url", <<"#">>),
         description     |-> Get(plannable, "description", <<>>)]

\* the assignment dict built from a course's assignment record
CourseAssignment(a, course) ==
    [name            |-> Get(a, "name", <<"U", "n", "n", "a", "m", "e", "d">>),
     due_at          |-> Get(a, "due_at", None),
     points_possible |-> Get(a, "points_possible", 0),
     course_name     |-> Get(course, "name", <<"U", "n", "k", "n", "o", "w", "n">>),
     html_url        |-> Get(a, "html_url", <<"#">>),
     description     |-> Get(a, "description", <<>>)]

\* the de-duplicating loop body, over assignment dicts already built:
\* each one is appended unless its key was seen
RECURSIVE MergeLoop(_, _)
MergeLoop(items, st) ==
    IF items = <<>> THEN st
    ELSE MergeLoop(Tail(items), AddIfNew(Head(items), st))

\* a buggy variant of the guard: records without a deadline are kept
SkipsNoDeadlineNever(a) == FALSE

\* if not a.get('due_at'): continue
SkipsNoDeadline(a) == ~Truthy(Get(a, "due_at", None))

\* for a in course_assignments: skip without deadline, build the dict, add it if new
AssignmentsLoop(items, course, st) ==
    LET \* the records of a response the loop does not skip, in order
        RECURSIVE WithDeadline(_)
        WithDeadline(list) ==
            IF list = <<>> THEN <<>>
            ELSE IF SkipsNoDeadline(Head(list)) THEN WithDeadline(Tail(list))
            ELSE <<Head(list)>> \o WithDeadline(Tail(list))
        kept == WithDeadline(items)
    IN  MergeLoop([i \in 1..Len(kept) |-> CourseAssignment(kept[i], course)], st)

\* a buggy variant: a failed assignments call throws away what was collected
AssignmentsResultAborting(code, body, course, st) ==
    IF code = 200 THEN AssignmentsLoop(body, course, st)
    ELSE [all_items |-> <<>>, seen_items |-> {}]

\* if assignments_response.status_code == 200: ... (nothing otherwise)
AssignmentsResult(code, body, course, st) ==
    IF code = 200 THEN AssignmentsLoop(body, course, st) ELSE st

\* the whole de-duplication applied to a list of lists, from an empty seen set
RECURSIVE Concat(_)
Concat(lists) == IF lists = <<>> THEN <<>> ELSE Head(lists) \o Concat(Tail(lists))

Merge(lists) == MergeLoop(Concat(lists), [all_items |-> <<>>, seen_items |-> {}]).all_items

\* the course loop skips a course without id, or completed / deleted
SkipsCourse(course) ==
    \/ "id" \notin DOMAIN course
    \/ Get(course, "workflow_state", <<>>) \in {<<"completed">>, <<"deleted">>}

---------------------------------------------------------------------------
(* Actions *)

\* nothing has been classified, nothing curated
ClassifyIdle ==
    /\ raw_record = <<>>
    /\ work_item = <<>>
    /\ major_test = [raised |-> "", value |-> FALSE]
    /\ priority_symbol = [raised |-> "", value |-> ""]
    /\ system_today = 0

CuratorIdle ==
    /\ exam_date = [wall |-> 0, fold |-> 0]
    /\ all_modules = <<>>
    /\ modules_before_exam = <<>>
    /\ all_content = <<>>

\* no quiz has been read
QuizIdle ==
    /\ quizzes = <<>>
    /\ all_quiz_questions = <<>>

\* no action plan has been asked for
PlanIdle ==
    /\ ai_answer = [kind |-> "none"]
    /\ ai_plan = [action_plan |-> <<>>, tips |-> <<>>]

\* main has not gone past the filter
RunIdle ==
    /\ guide_pos = [a |-> 1, i |-> 1]
    /\ study_guides_generated = <<>>
    /\ generate_calls = <<>>
    /\ notifications = <<>>
    /\ send_ok = TRUE
    /\ main_error = ""
    /\ exit_status = -1

\* no update, no subprocess
NoUpdate == [chat |-> 0, kind |-> "none", text |-> <<>>]

\* the bot polls and has handled nothing
BotIdle ==
    LET NoResult == [success |-> FALSE, stderr |-> <<>>]
        NoProcess == [state |-> "none", stdout_open |-> FALSE, returncode |-> 0, finished_at |-> -1]
    IN
        /\ update = NoUpdate
        /\ updates_handled = 0
        /\ replies = <<>>
        /\ pipeline_runs = <<>>
        /\ process = NoProcess
        /\ clock = 0
        /\ wait_started = -1
        /\ result = NoResult

\* the stages after curation have not run
ExtIdle == QuizIdle /\ PlanIdle /\ RunIdle /\ BotIdle

Init ==
    /\ pc = "planner"
    /\ ClassifyIdle /\ CuratorIdle /\ ExtIdle
    /\ inst = 1
    /\ all_assignments = <<>>
    /\ assignments = <<>>
    /\ all_items = <<>>
    /\ seen_items = {}
    /\ planner_items = <<>>
    /\ courses = <<>>
    /\ course_assignments = <<>>
    /\ status_code = 0
    /\ listA = <<>> /\ listB = <<>> /\ listC = <<>>
    /\ merged_once = <<>> /\ merged_nested = <<>>
    /\ now = 0 /\ due_soon = <<>>

\* requests.get(planner_url) answers; on 200 the body is merged in
FetchPlanner ==
    LET \* if planner_response.status_code == 200: ... (nothing otherwise)
        PlannerResult(code, body, st) ==
            LET \* for item in planner_items: build the dict, add it if new
                PlannerLoop(items, seen) ==
                    MergeLoop([i \in 1..Len(items) |-> PlannerAssignment(items[i])], seen)
            IN
                IF code = 200 THEN PlannerLoop(body, st) ELSE st
    IN
        /\ pc = "planner"
        /\ \E code \in StatusCodes, body \in SeqUpTo(RawPlannerItems, MaxItems) :
            /\ status_code' = code
            /\ code # 200 => body = <<>>
            /\ planner_items' = body
            /\ all_items' = PlannerResult(code, body, [all_items |-> all_items, seen_items |-> seen_items]).all_items
            /\ seen_items' = PlannerResult(code, body, [all_items |-> all_items, seen_items |-> seen_items]).seen_items
        /\ pc' = "courses"
        /\ UNCHANGED <<inst, all_assignments, assignments, courses, course_assignments>>
        /\ UNCHANGED <<mergeVars, filterVars, classifyVars, curatorVars, extVars>>

\* requests.get(courses_url) answers; on 200 the course loop starts
FetchCourses ==
    LET RC3 == [name |-> <<"M">>]
        RawCourses == {RC1, [id |-> 2, name |-> <<"L">>, workflow_state |-> <<"completed">>], RC3}
    IN
        /\ pc = "courses"
        /\ \E code \in StatusCodes, body \in SeqUpTo(RawCourses, MaxCourses) :
            /\ status_code' = code
            /\ code # 200 => body = <<>>
            /\ courses' = body
        /\ pc' = "assignments"
        /\ UNCHANGED <<inst, all_assignments, assignments, all_items, seen_items,
                       planner_items, course_assignments>>
        /\ UNCHANGED <<mergeVars, filterVars, classifyVars, curatorVars, extVars>>

\* one iteration of the course loop that hits a continue
SkipCourse ==
    /\ pc = "assignments"
    /\ courses # <<>>
    /\ SkipsCourse(Head(courses))
    /\ courses' = Tail(courses)
    /\ UNCHANGED <<pc, inst, all_assignments, assignments, all_items, seen_items,
                   planner_items, course_assignments, status_code>>
    /\ UNCHANGED <<mergeVars, filterVars, classifyVars, curatorVars, extVars>>

\* one iteration of the course loop: requests.get(assignments_url) answers
FetchAssignments ==
    LET RA2 == [name |-> <<"a">>, html_url |-> <<"e", "2">>]
        RA3 == [name |-> <<"a">>, due_at |-> None, html_url |-> <<"e", "3">>]
        RawAssignments == {RA1, RA2, RA3}
    IN
        /\ pc = "assignments"
        /\ courses # <<>>
        /\ ~SkipsCourse(Head(courses))
        /\ \E code \in StatusCodes, body \in SeqUpTo(RawAssignments, MaxItems) :
            /\ status_code' = code
            /\ code # 200 => body = <<>>
            /\ course_assignments' = IF code = 200 THEN body ELSE course_assignments
            /\ all_items' = AssignmentsResult(code, body, Head(courses), [all_items |-> all_items, seen_items |-> seen_items]).all_items
            /\ seen_items' = AssignmentsResult(code, body, Head(courses), [all_items |-> all_items, seen_items |-> seen_items]).seen_items
        /\ courses' = Tail(courses)
        /\ UNCHANGED <<pc, inst, all_assignments, assignments, planner_items>>
        /\ UNCHANGED <<mergeVars, filterVars, classifyVars, curatorVars, extVars>>

\* any of the three requests.get calls (or the decoding of its body) raises:
\* control jumps to the except clause
RequestRaises ==
    /\ pc \in {"planner", "courses"} \/ (pc = "assignments" /\ courses # <<>>
                                          /\ ~SkipsCourse(Head(courses)))
    /\ pc' = "except"
    /\ UNCHANGED <<inst, all_assignments, assignments, all_items, seen_items,
                   planner_items, courses, course_assignments, status_code>>
    /\ UNCHANGED <<mergeVars, filterVars, classifyVars, curatorVars, extVars>>

\* the except clause of get_canvas_all_items
HandleException ==
    LET \* except Exception as e: ... return []
        ExceptReturn(items) == <<>>
    IN
        /\ pc = "except"
        /\ assignments' = ExceptReturn(all_items)
        /\ pc' = "extend"
        /\ UNCHANGED <<inst, all_assignments, all_items, seen_items,
                       planner_items, courses, course_assignments, status_code>>
        /\ UNCHANGED <<mergeVars, filterVars, classifyVars, curatorVars, extVars>>

\* return all_items
ReturnItems ==
    /\ pc = "assignments"
    /\ courses = <<>>
    /\ assignments' = all_items
    /\ pc' = "extend"
    /\ UNCHANGED <<inst, all_assignments, all_items, seen_items,
                   planner_items, courses, course_assignments, status_code>>
    /\ UNCHANGED <<mergeVars, filterVars, classifyVars, curatorVars, extVars>>

\* main: all_assignments.extend(assignments), then the next instance
MainExtend ==
    LET \* all_assignments.extend(assignments)
        Extend(all, new) == all \o new
    IN
        /\ pc = "extend"
        /\ all_assignments' = Extend(all_assignments, assignments)
        /\ inst' = inst + 1
        /\ pc' = IF inst < NumInstances THEN "planner" ELSE "collected"
        /\ all_items' = <<>>
        /\ seen_items' = {}
        /\ planner_items' = <<>>
        /\ courses' = <<>>
        /\ course_assignments' = <<>>
        /\ status_code' = 0
        /\ UNCHANGED assignments
        /\ UNCHANGED <<mergeVars, filterVars, classifyVars, curatorVars, extVars>>

Next ==
    \/ FetchPlanner
    \/ FetchCourses
    \/ SkipCourse
    \/ FetchAssignments
    \/ RequestRaises
    \/ HandleException
    \/ ReturnItems
    \/ MainExtend

Spec == Init /\ [][Next]_vars

\* main enters get_canvas_all_items for the last configured instance
InitInstance ==
    LET \* lists the instances before the last one may have given main
        PriorLists == {<<>>, <<CourseAssignment(RA1, RC1)>>}
    IN
        /\ pc = "planner"
        /\ ClassifyIdle /\ CuratorIdle /\ ExtIdle
        /\ inst = NumInstances
        /\ all_assignments \in PriorLists
        /\ assignments = <<>>
        /\ all_items = <<>>
        /\ seen_items = {}
        /\ planner_items = <<>>
        /\ courses = <<>>
        /\ course_assignments = <<>>
        /\ status_code = 0
        /\ listA = <<>> /\ listB = <<>> /\ listC = <<>>
        /\ merged_once = <<>> /\ merged_nested = <<>>
        /\ now = 0 /\ due_soon = <<>>

SpecInstance == InitInstance /\ [][Next]_vars

---------------------------------------------------------------------------
(* The de-duplication as a function of item lists *)

InitMerge ==
    LET \* assignment dicts the merge check draws its lists from: the planner's records and
        \* the enumeration's record that shares a planner record's name and deadline
        MergeItems ==
            {PlannerAssignment(i) : i \in RawPlannerItems} \cup {CourseAssignment(RA1, RC1)}
    IN
        /\ pc = "merge"
        /\ ClassifyIdle /\ CuratorIdle /\ ExtIdle
        /\ listA \in SeqUpTo(MergeItems, MaxMergeLen)
        /\ listB \in SeqUpTo(MergeItems, MaxMergeLen)
        /\ listC \in SeqUpTo(MergeItems, MaxMergeLen)
        /\ merged_once = <<>>
        /\ merged_nested = <<>>
        /\ inst = 1
        /\ all_assignments = <<>>
        /\ assignments = <<>>
        /\ all_items = <<>>
        /\ seen_items = {}
        /\ planner_items = <<>>
        /\ courses = <<>>
        /\ course_assignments = <<>>
        /\ status_code = 0
        /\ now = 0 /\ due_soon = <<>>

\* the lists go through the de-duplicating loop, in one pass and in two
MergeLists ==
    /\ pc = "merge"
    /\ merged_once' = Merge(<<listA, listB, listC>>)
    /\ merged_nested' = Merge(<<Merge(<<listA, listB>>), listC>>)
    /\ pc' = "merged"
    /\ UNCHANGED <<listA, listB, listC>>
    /\ UNCHANGED <<collectorVars, filterVars, classifyVars, curatorVars, extVars>>

NextMerge == MergeLists

SpecMerge == InitMerge /\ [][NextMerge]_vars

---------------------------------------------------------------------------
(* Time: instants are seconds since 1970-01-01T00:00:00Z; a naive or zoned     *)
(* datetime is its wall-clock reading, counted in seconds the same way         *)

DaySeconds == 86400
HourSeconds == 3600

\* days since 1970-01-01 of a proleptic Gregorian date
DaysFromCivil(y, m, d) ==
    LET yy  == IF m <= 2 THEN y - 1 ELSE y
        era == yy \div 400
        yoe == yy - era * 400
        mp  == IF m > 2 THEN m - 3 ELSE m + 9
        doy == (153 * mp + 2) \div 5 + d - 1
        doe == yoe * 365 + yoe \div 4 - yoe \div 100 + doy
    IN  era * 146097 + doe - 719468

\* the date of a day number
CivilFromDays(z) ==
    LET zz  == z + 719468
        era == zz \div 146097
        doe == zz - era * 146097
        yoe == (doe - doe \div 1460 + doe \div 36524 - doe \div 146096) \div 365
        doy == doe - (365 * yoe + yoe \div 4 - yoe \div 100)
        mp  == (5 * doy + 2) \div 153
        d   == doy - (153 * mp + 2) \div 5 + 1
        m   == IF mp < 10 THEN mp + 3 ELSE mp - 9
        y   == yoe + era * 400
    IN  [y |-> IF m <= 2 THEN y + 1 ELSE y, m |-> m, d |-> d]

\* seconds since the epoch of a date and time of day
Seconds(y, m, d, hh, mm, ss) ==
    DaysFromCivil(y, m, d) * DaySeconds + hh * HourSeconds + mm * 60 + ss

Digits == <<"0", "1", "2", "3", "4", "5", "6", "7", "8", "9">>
IsDigit(c) == \E n \in 1..10 : Digits[n] = c
DigitValue(c) == (CHOOSE n \in 1..10 : Digits[n] = c) - 1

\* n written with two digits, and with four
Fmt2(n) == <<Digits[((n \div 10) % 10) + 1], Digits[(n % 10) + 1]>>

\* the text Canvas sends for an instant: YYYY-MM-DDTHH:MM:SSZ
IsoZ(t) ==
    LET Fmt4(n) == Fmt2(n \div 100) \o Fmt2(n % 100)
        c   == CivilFromDays(t \div DaySeconds)
        sod == t % DaySeconds
    IN  Fmt4(c.y) \o <<"-">> \o Fmt2(c.m) \o <<"-">> \o Fmt2(c.d) \o <<"T">>
        \o Fmt2(sod \div HourSeconds) \o <<":">> \o Fmt2((sod % HourSeconds) \div 60)
        \o <<":">> \o Fmt2(sod % 60) \o <<"Z">>

Num2(s, i) == DigitValue(s[i]) * 10 + DigitValue(s[i + 1])

\* the character at position i of a text, "" past its end
At(s, i) == IF i \in 1..Len(s) THEN s[i] ELSE ""

\* a numeric field of strptime's pattern read at position i as w digits, -1 when
\* the w characters there are not all digits
Field(s, i, w) ==
    IF \E k \in 0..(w - 1) : ~IsDigit(At(s, i + k)) THEN -1
    ELSE IF w = 2 THEN Num2(s, i)
    ELSE DigitValue(s[i])

\* the %d field: as Field, or a space and one digit
DayField(s, i, w) ==
    IF w = 2 /\ At(s, i) = " " /\ IsDigit(At(s, i + 1))
    THEN DigitValue(s[i + 1])
    ELSE Field(s, i, w)

\* where field k starts when the fields before it have the widths w
FieldStart(w, k) ==
    IF k = 1 THEN 6
    ELSE IF k = 2 THEN 7 + w[1]
    ELSE IF k = 3 THEN 8 + w[1] + w[2]
    ELSE IF k = 4 THEN 9 + w[1] + w[2] + w[3]
    ELSE IF k = 5 THEN 10 + w[1] + w[2] + w[3] + w[4]
    ELSE 11 + w[1] + w[2] + w[3] + w[4] + w[5]

\* whether the pattern matches the whole of s with the fields taking the widths w
\* (a separator follows every field, so at most one w matches)
PatternMatches(s, w) ==
    /\ Len(s) = FieldStart(w, 6) - 1
    /\ At(s, 5) = "-"
    /\ At(s, FieldStart(w, 2) - 1) = "-"
    /\ At(s, FieldStart(w, 3) - 1) \in {"T", "t"}
    /\ At(s, FieldStart(w, 4) - 1) = ":"
    /\ At(s, FieldStart(w, 5) - 1) = ":"
    /\ At(s, FieldStart(w, 6) - 1) \in {"Z", "z"}
    /\ \A i \in 1..4 : IsDigit(At(s, i))
    /\ Field(s, FieldStart(w, 1), w[1]) \in 1..12
    /\ DayField(s, FieldStart(w, 2), w[2]) \in 1..31
    /\ Field(s, FieldStart(w, 3), w[3]) \in 0..23
    /\ Field(s, FieldStart(w, 4), w[4]) \in 0..59
    /\ Field(s, FieldStart(w, 5), w[5]) \in 0..61

\* the values of the fields of a text the pattern matches with the widths w
FieldValues(s, w) ==
    [ok |-> TRUE,
     y  |-> Num2(s, 1) * 100 + Num2(s, 3),
     m  |-> Field(s, FieldStart(w, 1), w[1]),
     d  |-> DayField(s, FieldStart(w, 2), w[2]),
     hh |-> Field(s, FieldStart(w, 3), w[3]),
     mm |-> Field(s, FieldStart(w, 4), w[4]),
     ss |-> Field(s, FieldStart(w, 5), w[5])]

\* datetime.strptime(s, "%Y-%m-%dT%H:%M:%SZ"): the pattern is matched ignoring
\* case, %Y takes four digits and every other field one or two, then the datetime
\* constructor checks the values (ASCII digits only)
StrptimeParse(s) ==
    LET DaysInMonth(y, m) ==
            LET IsLeap(year) == ((year % 4) = 0 /\ (year % 100) # 0) \/ (year % 400) = 0
            IN
                IF m = 2 THEN (IF IsLeap(y) THEN 29 ELSE 28)
                ELSE IF m \in {4, 6, 9, 11} THEN 30 ELSE 31
        \* the widths the five fields after the year may take: one digit or two each
        FieldWidths == [1..5 -> 1..2]
        matched == {FieldValues(s, w) : w \in {v \in FieldWidths : PatternMatches(s, v)}}
        valid   == {p \in matched : p.y >= 1 /\ p.d <= DaysInMonth(p.y, p.m) /\ p.ss <= 59}
    IN  IF valid = {}
        THEN [ok |-> FALSE, y |-> 0, m |-> 0, d |-> 0, hh |-> 0, mm |-> 0, ss |-> 0]
        ELSE CHOOSE p \in valid : TRUE


\* the naive datetime strptime returns, as a wall-clock reading
Strptime(s) ==
    CHOOSE t \in {Seconds(p.y, p.m, p.d, p.hh, p.mm, p.ss) : p \in {StrptimeParse(s)}} : TRUE


DstEnd(y) ==
    LET d == CHOOSE d \in 1..7 : ((DaysFromCivil(y, 11, d) + 4) % 7) = 0
    IN  Seconds(y, 11, d, 9, 0, 0)

\* ZoneInfo("America/Los_Angeles").utcoffset at an instant, in seconds
UtcOffset(t) ==
    LET \* America/Los_Angeles: daylight time runs from 02:00 standard time on the second
        \* Sunday of March to 02:00 daylight time on the first Sunday of November
        DstStart(y) ==
            LET d == CHOOSE d \in 8..14 : ((DaysFromCivil(y, 3, d) + 4) % 7) = 0
            IN  Seconds(y, 3, d, 10, 0, 0)
        y == CivilFromDays(t \div DaySeconds).y
    IN  IF DstStart(y) <= t /\ t < DstEnd(y) THEN -7 * HourSeconds ELSE -8 * HourSeconds

\* dt.astimezone(pacific_tz) of the instant t, and datetime.now(pacific_tz) at t:
\* the zoned datetime holds the wall-clock reading and the fold flag
AsPacific(t) ==
    LET y == CivilFromDays(t \div DaySeconds).y
    IN  [wall |-> t + UtcOffset(t),
         fold |-> IF DstEnd(y) <= t /\ t < DstEnd(y) + HourSeconds THEN 1 ELSE 0]

\* the instant a zoned datetime denotes
InstantOf(dt) ==
    IF dt.fold = 1 THEN dt.wall + 8 * HourSeconds
    ELSE CHOOSE t \in {dt.wall + 7 * HourSeconds, dt.wall + 8 * HourSeconds} :
            AsPacific(t).wall = dt.wall /\ AsPacific(t).fold = 0

\* x < y and x <= y of two datetimes with the same tzinfo object: Python compares
\* the wall-clock readings and ignores tzinfo and fold
DtLess(x, y) == x.wall < y.wall

\* dt.date(), as a day number
DateOf(dt) == dt.wall \div DaySeconds

---------------------------------------------------------------------------
(* filter_due_next_3_days *)

\* timedelta(days=3, hours=12), in seconds
WindowSeconds == 3 * DaySeconds + 12 * HourSeconds

\* cutoff_datetime = now + timedelta(days=3, hours=12)
Cutoff(nowDt) ==
    LET \* dt + timedelta(seconds): wall-clock arithmetic, tzinfo kept, fold cleared
        DtPlus(dt, seconds) == [wall |-> dt.wall + seconds, fold |-> 0]
    IN
        DtPlus(nowDt, WindowSeconds)

\* the loop body's decision: the assignment is appended to due_soon
Keeps(assignment, nowDt) ==
    LET DtLessEq(x, y) == x.wall <= y.wall
    IN
        /\ Truthy(assignment.due_at)
        /\ StrptimeParse(assignment.due_at).ok
        /\ LET due == AsPacific(Strptime(assignment.due_at))
           IN  /\ ~DtLess(due, nowDt)
               /\ DtLessEq(due, Cutoff(nowDt))

\* the loop body, were due_date_parsed taken from the UTC datetime
EnrichedUtcDate(assignment) ==
    LET due == AsPacific(Strptime(assignment.due_at))
    IN  assignment @@ [due_datetime_parsed |-> due,
                       due_date_parsed |-> Strptime(assignment.due_at) \div DaySeconds]

\* the two fields the loop body sets on a kept assignment
Enriched(assignment) ==
    LET due == AsPacific(Strptime(assignment.due_at))
    IN  assignment @@ [due_datetime_parsed |-> due, due_date_parsed |-> DateOf(due)]

\* due_soon.sort(key=lambda x: x['due_datetime_parsed']): a stable sort
RECURSIVE SortByDue(_)
SortByDue(items) ==
    LET \* one item put into a list sorted by due_datetime_parsed, after its equals
        RECURSIVE InsertSorted(_, _)
        InsertSorted(sorted, x) ==
            IF sorted = <<>> THEN <<x>>
            ELSE IF DtLess(x.due_datetime_parsed, Head(sorted).due_datetime_parsed)
                 THEN <<x>> \o sorted
                 ELSE <<Head(sorted)>> \o InsertSorted(Tail(sorted), x)
    IN
        IF items = <<>> THEN <<>>
        ELSE InsertSorted(SortByDue(SubSeq(items, 1, Len(items) - 1)), items[Len(items)])

\* the list filter_due_next_3_days returns when datetime.now gives the instant t
FilterDueNext3Days(items, t) ==
    LET \* for assignment in assignments: ... due_soon.append(assignment)
        RECURSIVE FilterLoop(_, _)
        FilterLoop(list, nowDt) ==
            IF list = <<>> THEN <<>>
            ELSE (IF Keeps(Head(list), nowDt) THEN <<Enriched(Head(list))>> ELSE <<>>)
                 \o FilterLoop(Tail(list), nowDt)
    IN
        SortByDue(FilterLoop(items, AsPacific(t)))

\* the argument list after the call: the kept dicts were enriched in place
EnrichedInPlace(items, t) ==
    [i \in 1..Len(items) |->
        IF Keeps(items[i], AsPacific(t)) THEN Enriched(items[i]) ELSE items[i]]

\* instants at which the filter is run
Nows ==
    { Seconds(2026, 1, 21, 22, 0, 0),    \* 14:00:00 PST, 3 days 12 hours before 2026-01-25T10:00:00Z
      Seconds(2026, 1, 2, 7, 59, 59),    \* 23:59:59 PST, 1 January
      Seconds(2026, 3, 7, 8, 0, 0),      \* 00:00:00 PST, the day before daylight time starts
      Seconds(2026, 10, 28, 20, 30, 0),  \* 13:30:00 PDT, 3 days 12 hours before 01:30 on 1 November
      Seconds(2026, 11, 1, 9, 0, 0) }    \* 01:00:00 PST, the instant daylight time ends

\* 01:50 local time on the third calendar day after the local date of t
Day4At0150(t) ==
    InstantOf([wall |-> (DateOf(AsPacific(t)) + 3) * DaySeconds + HourSeconds + 50 * 60,
               fold |-> 0])

\* a due_at that strptime rejects: the offset is written +00:00 instead of Z
MalformedDue ==
    SubSeq(IsoZ(Seconds(2026, 1, 2, 8, 0, 0)), 1, 19) \o <<"+", "0", "0", ":", "0", "0">>

\* a deadline late in the local evening, when the date in UTC is already the next
EveningDue == IsoZ(Seconds(2026, 1, 25, 7, 59, 59))

InitFilter ==
    LET \* deadlines, as offsets in seconds from an instant of Nows
        DueOffsets ==
            {-1, 0, WindowSeconds - HourSeconds, WindowSeconds, WindowSeconds + 1,
             WindowSeconds + 900, WindowSeconds + 2700}
        DueInstants ==
            {n + o : n \in Nows, o \in DueOffsets} \cup {Day4At0150(n) : n \in Nows}
        \* a due_at that strptime accepts although its fields are not zero-padded:
        \* 2026-1-2T8:00:00Z
        UnpaddedDue ==
            <<"2", "0", "2", "6", "-", "1", "-", "2", "T", "8", ":", "0", "0", ":", "0", "0", "Z">>
        DueTexts == {IsoZ(t) : t \in DueInstants} \cup {MalformedDue, UnpaddedDue, EveningDue, None}
        \* deadlines that a second assignment, with another name, shares
        SharedDueTexts == {IsoZ(Seconds(2026, 1, 25, 10, 0, 0)), IsoZ(Seconds(2026, 11, 1, 9, 0, 0))}
        FilterItems ==
            { [name |-> <<"h">>, due_at |-> d, points_possible |-> 0, course_name |-> <<"K">>,
               html_url |-> <<"#">>, description |-> <<>>] : d \in DueTexts }
            \cup
            { [name |-> <<"g">>, due_at |-> d, points_possible |-> 0, course_name |-> <<"K">>,
               html_url |-> <<"#">>, description |-> <<>>] : d \in SharedDueTexts }
    IN
        /\ pc = "collected"
        /\ ClassifyIdle /\ CuratorIdle /\ ExtIdle
        /\ all_assignments \in SeqUpTo(FilterItems, MaxFilterLen)
        /\ now = 0
        /\ due_soon = <<>>
        /\ inst = NumInstances + 1
        /\ assignments = <<>>
        /\ all_items = <<>>
        /\ seen_items = {}
        /\ planner_items = <<>>
        /\ courses = <<>>
        /\ course_assignments = <<>>
        /\ status_code = 0
        /\ listA = <<>> /\ listB = <<>> /\ listC = <<>>
        /\ merged_once = <<>> /\ merged_nested = <<>>

\* due_soon = filter_due_next_3_days(all_assignments)
FilterStep ==
    /\ pc = "collected"
    /\ \E t \in Nows :
        /\ now' = t
        /\ due_soon' = FilterDueNext3Days(all_assignments, t)
        /\ all_assignments' = EnrichedInPlace(all_assignments, t)
    /\ pc' = "filtered"
    /\ UNCHANGED <<inst, assignments, all_items, seen_items, planner_items, courses,
                   course_assignments, status_code>>
    /\ UNCHANGED <<mergeVars, classifyVars, curatorVars, extVars>>

NextFilter == FilterStep

SpecFilter == InitFilter /\ [][NextFilter]_vars

---------------------------------------------------------------------------
(* is_major_test and get_priority_symbol *)

UpperLetters ==
    <<"A", "B", "C", "D", "E", "F", "G", "H", "I", "J", "K", "L", "M", "N", "O", "P", "Q", "R", "S", "T", "U", "V", "W", "X", "Y", "Z">>
LowerLetters ==
    <<"a", "b", "c", "d", "e", "f", "g", "h", "i", "j", "k", "l", "m", "n", "o", "p", "q", "r", "s", "t", "u", "v", "w", "x", "y", "z">>

Lower(s) ==
    LET \* str.lower(), on ASCII letters
        LowerChar(c) ==
            IF \E n \in 1..26 : UpperLetters[n] = c
            THEN LowerLetters[CHOOSE n \in 1..26 : UpperLetters[n] = c]
            ELSE c
    IN
        [i \in 1..Len(s) |-> LowerChar(s[i])]

\* sub in s, for two strings
Contains(sub, s) ==
    \E i \in 1..(Len(s) - Len(sub) + 1) : SubSeq(s, i, i + Len(sub) - 1) = sub

\* JSON null where a number is expected: a value no count of points takes
NoneNumber == -1

\* a call that returns v, and a call that raises the exception e
Returns(v) == [raised |-> "", value |-> v]
Raises(e, v) == [raised |-> e, value |-> v]

major_keywords ==
    { <<"m", "i", "d", "t", "e", "r", "m">>,
      <<"f", "i", "n", "a", "l", " ", "e", "x", "a", "m">>,
      <<"f", "i", "n", "a", "l", " ", "t", "e", "s", "t">>,
      <<"m", "i", "d", "t", "e", "r", "m", " ", "e", "x", "a", "m">> }

\* is_major_test(assignment): None.lower() raises AttributeError, None >= 50
\* raises TypeError, str(None) is "None"
is_major_test(assignment) ==
    LET raw_name == Get(assignment, "name", <<>>)
        name == Lower(raw_name)
        description == Lower(Str(Get(assignment, "description", <<>>)))
        proctored ==
            \/ Contains(<<"r", "e", "s", "p", "o", "n", "d", "u", "s">>, description)
            \/ Contains(<<"l", "o", "c", "k", "d", "o", "w", "n", " ", "b", "r", "o", "w", "s", "e", "r">>, description)
    IN  IF raw_name = None THEN Raises("AttributeError", FALSE)
        ELSE IF \E keyword \in major_keywords : Contains(keyword, name) THEN Returns(TRUE)
        ELSE IF Contains(<<"e", "x", "a", "m">>, name)
             THEN (IF Get(assignment, "points_possible", 0) = NoneNumber
                   THEN Raises("TypeError", FALSE)
                   ELSE IF Get(assignment, "points_possible", 0) >= 50 THEN Returns(TRUE)
                   ELSE Returns(proctored))
        ELSE Returns(proctored)

\* get_priority_symbol(assignment), when datetime.now().date() is today
get_priority_symbol(assignment, today) ==
    LET major == is_major_test(assignment)
    IN  IF major.raised # "" THEN Raises(major.raised, "")
        ELSE IF major.value THEN Returns("rotating light")
        ELSE IF "due_date_parsed" \in DOMAIN assignment
             THEN LET days_until_due == assignment.due_date_parsed - today
                  IN  IF days_until_due = 0 THEN Returns("warning sign")
                      ELSE IF days_until_due = 1 THEN Returns("pushpin")
                      ELSE Returns("clipboard")
        ELSE Returns("clipboard")

\* the instant the classification runs at: 18:00 PST on 21 January 2026
ClassifyNow == Seconds(2026, 1, 22, 2, 0, 0)

InitClassify ==
    LET \* values of the source records' fields; a field may also be missing
        RawNames ==
            { <<"M", "I", "D", "T", "E", "R", "M">>, <<"F", "i", "n", "a", "l", " ", "E", "x", "a", "m">>,
              <<"f", "i", "n", "a", "l", " ", "t", "e", "s", "t">>, <<"E", "x", "a", "m", " ", "3">>,
              <<"Q", "u", "i", "z", " ", "1">>, <<"F", "i", "n", "a", "l">>, None }
        RawPoints == {NoneNumber, 40, 49, 50}
        RawDescriptions ==
            { <<"U", "s", "e", "s", " ", "R", "e", "s", "p", "o", "n", "d", "u", "s">>,
              <<"L", "o", "c", "k", "D", "o", "w", "n", " ", "B", "r", "o", "w", "s", "e", "r">>,
              <<"e", "s", "s", "a", "y">>, None }
        \* deadlines at 23:00 local time today and tomorrow, and in two days; none
        RawDues ==
            { IsoZ(Seconds(2026, 1, 22, 7, 0, 0)), IsoZ(Seconds(2026, 1, 23, 7, 0, 0)),
              IsoZ(Seconds(2026, 1, 24, 7, 0, 0)), None }
        \* the dicts with the key k, one for each value, and the dict without it
        Optional(k, values) == {<<>>} \cup {[x \in {k} |-> v] : v \in values}
        \* the name, points and description part of a record, the name under the key key
        RawFields(key) ==
            { n @@ p @@ d : n \in Optional(key, RawNames),
                            p \in Optional("points_possible", RawPoints),
                            d \in Optional("description", RawDescriptions) }
        \* planner items and course assignment records to classify
        ClassifyRecords ==
            { [plannable |-> f, plannable_date |-> due] : f \in RawFields("title"), due \in RawDues }
            \cup
            { f @@ [due_at |-> due] : f \in RawFields("name"), due \in RawDues \ {None} }
    IN
        /\ pc = "record"
        /\ raw_record \in ClassifyRecords
        /\ work_item = <<>>
        /\ major_test = [raised |-> "", value |-> FALSE]
        /\ priority_symbol = [raised |-> "", value |-> ""]
        /\ system_today = 0
        /\ CuratorIdle /\ ExtIdle
        /\ inst = 1
        /\ all_assignments = <<>>
        /\ assignments = <<>>
        /\ all_items = <<>>
        /\ seen_items = {}
        /\ planner_items = <<>>
        /\ courses = <<>>
        /\ course_assignments = <<>>
        /\ status_code = 200
        /\ listA = <<>> /\ listB = <<>> /\ listC = <<>>
        /\ merged_once = <<>> /\ merged_nested = <<>>
        /\ now = 0
        /\ due_soon = <<>>

\* the collector builds the assignment dict of a planner item
BuildFromPlanner ==
    /\ pc = "record"
    /\ "plannable" \in DOMAIN raw_record
    /\ work_item' = PlannerAssignment(raw_record)
    /\ pc' = "item"
    /\ UNCHANGED <<raw_record, major_test, priority_symbol, system_today>>
    /\ UNCHANGED <<collectorVars, mergeVars, filterVars, curatorVars, extVars>>

\* the collector builds the assignment dict of a course's assignment record
BuildFromCourse ==
    /\ pc = "record"
    /\ "plannable" \notin DOMAIN raw_record
    /\ ~SkipsNoDeadline(raw_record)
    /\ work_item' = CourseAssignment(raw_record, RC1)
    /\ pc' = "item"
    /\ UNCHANGED <<raw_record, major_test, priority_symbol, system_today>>
    /\ UNCHANGED <<collectorVars, mergeVars, filterVars, curatorVars, extVars>>

\* filter_due_next_3_days keeps the item, sets its two parsed fields and returns
\* (with a null name the listing of line 225 raises instead)
Localize ==
    /\ pc = "item"
    /\ Keeps(work_item, AsPacific(ClassifyNow))
    /\ work_item.name # None
    /\ work_item' = Enriched(work_item)
    /\ now' = ClassifyNow
    /\ pc' = "due_soon"
    /\ UNCHANGED <<raw_record, major_test, priority_symbol, system_today>>
    /\ UNCHANGED <<collectorVars, mergeVars, due_soon, curatorVars, extVars>>

\* is_major_test(assignment) is called on the item
CallIsMajorTest ==
    /\ pc \in {"item", "due_soon"}
    /\ major_test' = is_major_test(work_item)
    /\ pc' = "major_test"
    /\ UNCHANGED <<raw_record, work_item, priority_symbol, system_today>>
    /\ UNCHANGED <<collectorVars, mergeVars, filterVars, curatorVars, extVars>>

\* get_priority_symbol(assignment) is called on the item
CallGetPrioritySymbol ==
    LET \* datetime.now().date() at the instant t, as a day number
        SystemDate(t, zone) ==
            IF zone = "UTC" THEN t \div DaySeconds ELSE DateOf(AsPacific(t))
        \* the time zones the process may run in: datetime.now() without a zone reads
        \* the clock in the system's zone
        SystemZones == {"America/Los_Angeles", "UTC"}
    IN
        /\ pc \in {"item", "due_soon"}
        /\ \E zone \in SystemZones :
            /\ system_today' = SystemDate(ClassifyNow, zone)
            /\ priority_symbol' = get_priority_symbol(work_item, system_today')
        /\ pc' = "priority_symbol"
        /\ UNCHANGED <<raw_record, work_item, major_test>>
        /\ UNCHANGED <<collectorVars, mergeVars, filterVars, curatorVars, extVars>>

NextClassify ==
    \/ BuildFromPlanner
    \/ BuildFromCourse
    \/ Localize
    \/ CallIsMajorTest
    \/ CallGetPrioritySymbol

SpecClassify == InitClassify /\ [][NextClassify]_vars

---------------------------------------------------------------------------
(* auto-study-guide-generator.py: get_modules_before_exam and                  *)
(* get_all_content_before_exam                                                 *)

\* how many modules a modules response may hold
MaxModules == 2

Whitespace == {" ", "\n", "\t"}

\* the text without its leading whitespace
RECURSIVE LStrip(_)
LStrip(text) ==
    IF text # <<>> /\ text[1] \in Whitespace THEN LStrip(Tail(text)) ELSE text

\* the text without its trailing whitespace
RECURSIVE RStrip(_)
RStrip(text) ==
    IF text # <<>> /\ text[Len(text)] \in Whitespace
    THEN RStrip(SubSeq(text, 1, Len(text) - 1))
    ELSE text

\* clean_html(text)
clean_html(text) ==
    LET \* re.sub(r'\s+', ' ', s)
        RECURSIVE CollapseSpace(_)
        CollapseSpace(s) ==
            IF \A i \in 1..Len(s) : s[i] \notin Whitespace THEN s
            ELSE IF s[1] \in Whitespace THEN <<" ">> \o CollapseSpace(LStrip(s))
            ELSE <<s[1]>> \o CollapseSpace(Tail(s))
        \* re.sub('<[^<]+?>', '', s): from a "<", the shortest run of one or more
        \* characters other than "<" that a ">" ends is removed with both
        RECURSIVE RemoveTags(_)
        RemoveTags(s) ==
            IF \A i \in 1..Len(s) : s[i] # "<" THEN s
            ELSE LET ends == {j \in 3..Len(s) :
                                 s[j] = ">" /\ \A k \in 2..(j - 1) : s[k] # "<"}
                     end  == CHOOSE j \in ends : \A k \in ends : j <= k
                 IN  IF s[1] = "<" /\ ends # {}
                     THEN RemoveTags(SubSeq(s, end + 1, Len(s)))
                     ELSE <<s[1]>> \o RemoveTags(Tail(s))
    IN
        IF ~Truthy(text) THEN <<>>
        ELSE RStrip(LStrip(CollapseSpace(RemoveTags(text))))

exclude_keywords ==
    { <<"c", "o", "u", "r", "s", "e", " ", "e", "s", "s", "e", "n", "t", "i", "a", "l", "s">>,
      <<"m", "i", "c", "r", "o", "s", "o", "f", "t", " ", "t", "e", "a", "m", "s">>,
      <<"l", "i", "b", "r", "a", "r", "y", " ", "r", "e", "s", "e", "a", "r", "c", "h">>,
      <<"l", "i", "b", "r", "a", "r", "y", " ", "g", "u", "i", "d", "e">>,
      <<"i", "n", "s", "t", "r", "u", "c", "t", "i", "o", "n", " ", "g", "u", "i", "d", "e">>,
      <<"g", "e", "t", "t", "i", "n", "g", " ", "s", "t", "a", "r", "t", "e", "d">>,
      <<"s", "y", "l", "l", "a", "b", "u", "s">>,
      <<"r", "e", "s", "o", "u", "r", "c", "e", "s">>,
      <<"h", "o", "w", " ", "t", "o">>,
      <<"o", "r", "i", "e", "n", "t", "a", "t", "i", "o", "n">> }

\* ['week', 'chapter', 'ch ', 'module']
indicators ==
    { <<"w", "e", "e", "k">>, <<"c", "h", "a", "p", "t", "e", "r">>,
      <<"c", "h", " ">>, <<"m", "o", "d", "u", "l", "e">> }

\* the loop body of get_modules_before_exam, were the exclusion by name checked
\* only for modules without an unlock date
AppendsDatedUnchecked(module, exam) ==
    LET module_name == Lower(Get(module, "name", <<>>))
        unlock_at == Get(module, "unlock_at", None)
    IN  IF Truthy(unlock_at)
        THEN /\ StrptimeParse(unlock_at).ok
             /\ DtLess(AsPacific(Strptime(unlock_at)), exam)
        ELSE /\ ~\E keyword \in exclude_keywords : Contains(keyword, module_name)
             /\ \E indicator \in indicators : Contains(indicator, module_name)

\* the loop body of get_modules_before_exam, for a module whose name is not
\* null: the module is appended. The exam date and the unlock date carry the
\* same ZoneInfo object, so < compares wall-clock readings; an unlock_at that
\* does not parse is passed over
Appends(module, exam) ==
    LET module_name == Lower(Get(module, "name", <<>>))
        unlock_at == Get(module, "unlock_at", None)
    IN  /\ ~\E keyword \in exclude_keywords : Contains(keyword, module_name)
        /\ IF Truthy(unlock_at)
           THEN /\ StrptimeParse(unlock_at).ok
                /\ DtLess(AsPacific(Strptime(unlock_at)), exam)
           ELSE \E indicator \in indicators : Contains(indicator, module_name)

\* for module in all_modules: a null name makes .lower() raise, and the loop
\* ends there
RECURSIVE ModulesLoop(_, _, _)
ModulesLoop(modules, exam, before) ==
    IF modules = <<>> THEN [raised |-> FALSE, modules_before_exam |-> before]
    ELSE IF Get(Head(modules), "name", <<>>) = None
         THEN [raised |-> TRUE, modules_before_exam |-> before]
    ELSE ModulesLoop(Tail(modules), exam,
                     IF Appends(Head(modules), exam)
                     THEN Append(before, Head(modules)) ELSE before)

\* the content a module item adds to all_content; item.answer is what the
\* server answers to the request made for the item
ItemContent(item, module_name) ==
    LET item_type == Get(item, "type", None)
        item_title == Get(item, "title", <<"I", "t", "e", "m">>)
        ok == item.answer.status_code = 200
        json == item.answer.json
        page_url == IF Truthy(Get(item, "url", None)) THEN item.url
                    ELSE Get(item, "html_url", <<>>)
        One(title, content) ==
            IF content # <<>>
            THEN <<[type |-> item_type, module |-> module_name,
                    title |-> title, content |-> content]>>
            ELSE <<>>
    IN  IF item_type = <<"P", "a", "g", "e">>
        THEN IF Truthy(page_url) /\ ok
             THEN One(Get(json, "title", <<"U", "n", "t", "i", "t", "l", "e", "d">>), clean_html(Get(json, "body", <<>>)))
             ELSE <<>>
        ELSE IF item_type = <<"A", "s", "s", "i", "g", "n", "m", "e", "n", "t">>
        THEN IF Truthy(Get(item, "page_url", None)) /\ ok
             THEN One(Get(json, "name", item_title),
                      clean_html(Get(json, "description", <<>>)))
             ELSE <<>>
        ELSE IF item_type = <<"D", "i", "s", "c", "u", "s", "s", "i", "o", "n">>
        THEN IF ok
             THEN One(Get(json, "title", item_title),
                      clean_html(Get(json, "message", <<>>)))
             ELSE <<>>
        ELSE <<>>

\* for module in modules: the content of get_all_content_before_exam
RECURSIVE ContentLoop(_)
ContentLoop(modules) ==
    LET \* for item in module.get('items', [])
        RECURSIVE ItemsLoop(_, _)
        ItemsLoop(items, module_name) ==
            IF items = <<>> THEN <<>>
            ELSE ItemContent(Head(items), module_name) \o ItemsLoop(Tail(items), module_name)
    IN
        IF modules = <<>> THEN <<>>
        ELSE ItemsLoop(Get(Head(modules), "items", <<>>),
                       Get(Head(modules), "name", <<"M", "o", "d", "u", "l", "e">>))
             \o ContentLoop(Tail(modules))

InitCurate ==
    LET \* the deadlines of the exams a study guide is made for: 02:00 PST on 25 January
        \* 2026, and 01:30 PDT on 1 November 2026, half an hour before daylight time ends
        ExamInstants == {Seconds(2026, 1, 25, 10, 0, 0), Seconds(2026, 11, 1, 8, 30, 0)}
    IN
        /\ pc = "modules request"
        /\ ExtIdle
        /\ exam_date \in {AsPacific(t) : t \in ExamInstants}
        /\ all_modules = <<>>
        /\ modules_before_exam = <<>>
        /\ all_content = <<>>
        /\ ClassifyIdle
        /\ inst = 1
        /\ all_assignments = <<>>
        /\ assignments = <<>>
        /\ all_items = <<>>
        /\ seen_items = {}
        /\ planner_items = <<>>
        /\ courses = <<>>
        /\ course_assignments = <<>>
        /\ status_code = 0
        /\ listA = <<>> /\ listB = <<>> /\ listC = <<>>
        /\ merged_once = <<>> /\ merged_nested = <<>>
        /\ now = 0
        /\ due_soon = <<>>

\* get_modules_before_exam: requests.get(modules_url) answers
FetchModules ==
    LET \* what get_modules_before_exam returns when the modules request is answered
        \* with code and body: the except clause and every status but 200 lead to
        \* return []
        get_modules_before_exam(code, body, exam) ==
            LET loop == ModulesLoop(body, exam, <<>>)
            IN  IF code = 200 /\ ~loop.raised THEN loop.modules_before_exam ELSE <<>>
        \* unlock_at values: one second before the first exam, at it, one second after;
        \* 45 minutes after the second exam, at 01:15 PST; one that does not parse; null
        UnlockTexts ==
            { IsoZ(Seconds(2026, 1, 25, 9, 59, 59)), IsoZ(Seconds(2026, 1, 25, 10, 0, 0)),
              IsoZ(Seconds(2026, 1, 25, 10, 0, 1)), IsoZ(Seconds(2026, 11, 1, 9, 15, 0)),
              MalformedDue, None }
        ModuleNames ==
            { <<"W", "e", "e", "k", " ", "5">>, <<"W", "E", "E", "K", " ", "1", " ", "R", "e", "s", "o", "u", "r", "c", "e", "s">>,
              <<"L", "i", "b", "r", "a", "r", "y", " ", "G", "u", "i", "d", "e">>,
              <<"R", "e", "s", "e", "a", "r", "c", "h", " ", "M", "e", "t", "h", "o", "d", "s">>,
              <<"E", "x", "a", "m", " ", "R", "e", "v", "i", "e", "w">>, None }
        \* the items of a module, with the answers to the requests made for them
        ModuleItems ==
            << [type |-> <<"P", "a", "g", "e">>, title |-> <<"p">>, url |-> <<"u", "/", "p", "1">>,
                answer |-> [status_code |-> 200,
                            json |-> [title |-> <<"T">>, body |-> <<"<", "p", ">", "H", "i", " ", " ", "<", "b", ">", "x", "<", "/", "b", ">", "<", "/", "p", ">">>]]],
               [type |-> <<"P", "a", "g", "e">>, title |-> <<"q">>, url |-> <<"u", "/", "p", "2">>,
                answer |-> [status_code |-> 200, json |-> [body |-> <<"<", "b", "r", ">">>]]],
               [type |-> <<"P", "a", "g", "e">>, title |-> <<"r">>, url |-> <<"u", "/", "p", "3">>,
                answer |-> [status_code |-> 404, json |-> <<>>]],
               [type |-> <<"A", "s", "s", "i", "g", "n", "m", "e", "n", "t">>, title |-> <<"a">>, content_id |-> 7,
                answer |-> [status_code |-> 200, json |-> [description |-> <<"z">>]]],
               [type |-> <<"A", "s", "s", "i", "g", "n", "m", "e", "n", "t">>, title |-> <<"b">>, content_id |-> 8, page_url |-> <<"w">>,
                answer |-> [status_code |-> 200, json |-> [description |-> <<"<", "i", ">", "d", "<", "/", "i", ">">>]]],
               [type |-> <<"D", "i", "s", "c", "u", "s", "s", "i", "o", "n">>, title |-> <<"d">>, content_id |-> 9,
                answer |-> [status_code |-> 200, json |-> [message |-> <<" ", "m", " ">>]]],
               [type |-> <<"F", "i", "l", "e">>, title |-> <<"f">>,
                answer |-> [status_code |-> 404, json |-> <<>>]] >>
        \* module records of /api/v1/courses/:id/modules?include[]=items
        RawModules ==
            { [name |-> n, unlock_at |-> u, items |-> ModuleItems] :
                  n \in ModuleNames, u \in UnlockTexts }
            \cup { [name |-> <<"W", "e", "e", "k", " ", "5">>],
                   [name |-> <<"W", "e", "e", "k", " ", "5">>, items |-> None] }
    IN
        /\ pc = "modules request"
        /\ \E code \in StatusCodes, body \in SeqUpTo(RawModules, MaxModules) :
            /\ code # 200 => body = <<>>
            /\ status_code' = code
            /\ all_modules' = body
            /\ modules_before_exam' = get_modules_before_exam(code, body, exam_date)
        /\ pc' = "modules"
        /\ UNCHANGED <<exam_date, all_content>>
        /\ UNCHANGED <<inst, all_assignments, assignments, all_items, seen_items,
                       planner_items, courses, course_assignments>>
        /\ UNCHANGED <<mergeVars, filterVars, classifyVars, extVars>>

\* get_modules_before_exam: requests.get(modules_url) raises
ModulesRequestRaises ==
    /\ pc = "modules request"
    /\ modules_before_exam' = <<>>
    /\ pc' = "modules"
    /\ UNCHANGED <<exam_date, all_modules, all_content>>
    /\ UNCHANGED <<collectorVars, mergeVars, filterVars, classifyVars, extVars>>

\* get_all_content_before_exam: the loop over the modules returned
DownloadContent ==
    LET \* for item in module.get('items', []): items that are null cannot be iterated,
        \* and nothing in get_all_content_before_exam catches the TypeError
        ItemsRaise(modules) ==
            \E i \in 1..Len(modules) : Get(modules[i], "items", <<>>) = None
    IN
        /\ pc = "modules"
        /\ IF ItemsRaise(modules_before_exam)
           THEN /\ pc' = "curation raised"
                /\ UNCHANGED all_content
           ELSE /\ pc' = "curated"
                /\ all_content' = ContentLoop(modules_before_exam)
        /\ UNCHANGED <<exam_date, all_modules, modules_before_exam>>
        /\ UNCHANGED <<collectorVars, mergeVars, filterVars, classifyVars, extVars>>

NextCurate ==
    \/ FetchModules
    \/ ModulesRequestRaises
    \/ DownloadContent

SpecCurate == InitCurate /\ [][NextCurate]_vars

---------------------------------------------------------------------------
(* auto-study-guide-generator.py: get_quiz_questions *)

\* longest quizzes response body
MaxQuizzes == 2

\* the length of the prefix that stands for a question: question_text[:100]
KeyLength == 100

\* text[:100]
Prefix(text) == SubSeq(text, 1, IF Len(text) < KeyLength THEN Len(text) ELSE KeyLength)

TypeMultipleChoice == <<"m", "u", "l", "t", "i", "p", "l", "e", "_", "c", "h", "o", "i", "c", "e", "_", "q", "u", "e", "s", "t", "i", "o", "n">>
TypeTrueFalse == <<"t", "r", "u", "e", "_", "f", "a", "l", "s", "e", "_", "q", "u", "e", "s", "t", "i", "o", "n">>
TypeEssay == <<"e", "s", "s", "a", "y", "_", "q", "u", "e", "s", "t", "i", "o", "n">>

\* " | ".join(texts)
RECURSIVE Join(_)
Join(texts) ==
    IF texts = <<>> THEN <<>>
    ELSE IF Len(texts) = 1 THEN texts[1]
    ELSE texts[1] \o <<" ", "|", " ">> \o Join(Tail(texts))

\* [clean_html(a.get('text', '')) for a in answers if a.get('text')]
RECURSIVE AnswerTexts(_)
AnswerTexts(answers) ==
    IF answers = <<>> THEN <<>>
    ELSE (IF Truthy(Get(Head(answers), "text", None))
          THEN <<clean_html(Head(answers).text)>> ELSE <<>>)
         \o AnswerTexts(Tail(answers))

\* the body of "for q in questions_list"
AddQuestion(collected, q, quiz_title, attempt_num) ==
    LET \* answers_info of a question: the first five answer texts of a multiple choice
        \* or true/false question, behind the label
        AnswersInfo(question) ==
            LET answers == Get(question, "answers", <<>>)
                texts == AnswerTexts(answers)
            IN  IF answers # <<>> /\ Get(question, "question_type", <<>>) \in {TypeMultipleChoice, TypeTrueFalse}
                   /\ texts # <<>>
                THEN <<"\n", " ", " ", " ", "O", "p", "t", "i", "o", "n", "s", ":", " ">> \o Join(SubSeq(texts, 1, IF Len(texts) < 5 THEN Len(texts) ELSE 5))
                ELSE <<>>
        \* any(q['question'][:100] == question_key for q in all_quiz_questions)
        IsStored(question_text, stored) ==
            \E i \in 1..Len(stored) : Prefix(stored[i].question) = Prefix(question_text)
        question_text == clean_html(Get(q, "question_text", <<>>))
    IN  IF question_text # <<>> /\ ~IsStored(question_text, collected)
        THEN Append(collected, [quiz |-> quiz_title,
                                question |-> question_text \o AnswersInfo(q),
                                type |-> Get(q, "question_type", <<>>),
                                attempt |-> attempt_num])
        ELSE collected

\* for q in questions_list
RECURSIVE QuestionsLoop(_, _, _, _)
QuestionsLoop(questions_list, collected, quiz_title, attempt_num) ==
    IF questions_list = <<>> THEN collected
    ELSE QuestionsLoop(Tail(questions_list),
                       AddQuestion(collected, Head(questions_list), quiz_title, attempt_num),
                       quiz_title, attempt_num)

\* for submission in quiz_submissions: the questions of the first attempt that
\* has any are taken, then the loop breaks; submission.answer is what the server
\* answers to the questions request of the attempt
RECURSIVE SubmissionsLoop(_, _, _)
SubmissionsLoop(quiz_submissions, collected, quiz_title) ==
    IF quiz_submissions = <<>> THEN collected
    ELSE LET submission == Head(quiz_submissions)
             has_id == "id" \in DOMAIN submission /\ submission.id # 0
             questions_list ==
                 IF has_id /\ submission.answer.status_code = 200
                 THEN Get(submission.answer.json, "quiz_submission_questions", <<>>)
                 ELSE <<>>
         IN  IF questions_list # <<>>
             THEN QuestionsLoop(questions_list, collected, quiz_title,
                                Get(submission, "attempt", 1))
             ELSE SubmissionsLoop(Tail(quiz_submissions), collected, quiz_title)

\* the collector, the merge check, the filter and main's later stages are idle
PlannerIdle ==
    /\ inst = 1
    /\ all_assignments = <<>>
    /\ assignments = <<>>
    /\ all_items = <<>>
    /\ seen_items = {}
    /\ planner_items = <<>>
    /\ courses = <<>>
    /\ course_assignments = <<>>
    /\ status_code = 0
    /\ listA = <<>> /\ listB = <<>> /\ listC = <<>>
    /\ merged_once = <<>> /\ merged_nested = <<>>
    /\ now = 0
    /\ due_soon = <<>>

InitQuiz ==
    /\ pc = "quizzes request"
    /\ exam_date = AsPacific(Seconds(2026, 1, 25, 10, 0, 0))
    /\ all_modules = <<>>
    /\ modules_before_exam = <<>>
    /\ all_content = <<>>
    /\ quizzes = <<>>
    /\ all_quiz_questions = <<>>
    /\ PlannerIdle /\ ClassifyIdle /\ PlanIdle /\ RunIdle /\ BotIdle

\* get_quiz_questions: requests.get(quizzes_url) answers; any status but 200
\* leads to the return of the empty list
FetchQuizzes ==
    LET \* questions of /api/v1/quiz_submissions/:id/questions
        QChoice == [question_text |-> <<"<", "p", ">", "2", "+", "2", "?", "<", "/", "p", ">">>, question_type |-> TypeMultipleChoice,
                    answers |-> <<[text |-> <<"3">>], [text |-> <<"<", "b", ">", "4", "<", "/", "b", ">">>], [weight |-> 0]>>]
        QPlain == [question_text |-> <<"2", "+", "2", "?">>, question_type |-> TypeEssay]
        \* a question text longer than the key: 100 times "a", then the letter c
        LongText(c) == [i \in 1..(KeyLength + 1) |-> IF i <= KeyLength THEN "a" ELSE c]
        QLongX == [question_text |-> LongText("x"), question_type |-> TypeEssay]
        QLongY == [question_text |-> LongText("y"), question_type |-> TypeTrueFalse,
                   answers |-> <<[text |-> <<"T">>], [text |-> <<"F">>]>>]
        QEmpty == [question_text |-> <<"<", "b", "r", ">">>, question_type |-> TypeEssay]
        \* an attempt of a quiz with the answer to its questions request
        Attempt(id, n, code, questions_list) ==
            [id |-> id, attempt |-> n,
             answer |-> [status_code |-> code,
                         json |-> [quiz_submission_questions |-> questions_list]]]
        \* answers to /api/v1/courses/:id/quizzes/:id/submissions
        SubmissionAnswers ==
            { [status_code |-> 200, object |-> FALSE,
               json |-> [array |-> <<Attempt(1, 1, 200, <<QChoice, QPlain>>)>>]],
              [status_code |-> 200, object |-> TRUE,
               json |-> [quiz_submissions |-> <<Attempt(2, 1, 200, <<>>),
                                                Attempt(3, 2, 200, <<QPlain, QChoice>>)>>]],
              [status_code |-> 200, object |-> FALSE,
               json |-> [array |-> <<Attempt(4, 1, 200, <<QLongX, QLongY>>), Attempt(5, 2, 200, <<QChoice>>)>>]],
              [status_code |-> 200, object |-> FALSE,
               json |-> [array |-> <<[attempt |-> 1], Attempt(6, 2, 404, <<>>),
                          Attempt(7, 3, 200, <<QLongY, QEmpty, QChoice>>)>>]],
              [status_code |-> 404, object |-> TRUE, json |-> <<>>] }
        \* quiz records of /api/v1/courses/:id/quizzes
        RawQuizzes ==
            { [title |-> <<"Q">>, due_at |-> d, answer |-> a] :
                  d \in {IsoZ(Seconds(2026, 1, 25, 10, 0, 0) - 1), IsoZ(Seconds(2026, 1, 25, 10, 0, 0)), None}, a \in SubmissionAnswers }
            \cup { [due_at |-> None, lock_at |-> IsoZ(Seconds(2026, 1, 25, 10, 0, 0) + 1),
                    answer |-> [status_code |-> 200, object |-> FALSE,
                                json |-> [array |-> <<Attempt(1, 1, 200, <<QChoice, QPlain>>)>>]]],
                   [due_at |-> MalformedDue,
                    answer |-> [status_code |-> 200, object |-> FALSE,
                                json |-> [array |-> <<Attempt(1, 1, 200, <<QChoice, QPlain>>)>>]]] }
    IN
        /\ pc = "quizzes request"
        /\ \E code \in StatusCodes, body \in SeqUpTo(RawQuizzes, MaxQuizzes) :
            /\ code # 200 => body = <<>>
            /\ status_code' = code
            /\ quizzes' = body
            /\ pc' = IF code = 200 THEN "quiz loop" ELSE "questions returned"
        /\ UNCHANGED all_quiz_questions
        /\ UNCHANGED <<inst, all_assignments, assignments, all_items, seen_items,
                       planner_items, courses, course_assignments>>
        /\ UNCHANGED <<mergeVars, filterVars, classifyVars, curatorVars, planVars, runVars, botVars>>

\* get_quiz_questions: requests.get(quizzes_url) raises, the outer except
\* clause prints and the empty list is returned
QuizzesRequestRaises ==
    /\ pc = "quizzes request"
    /\ pc' = "questions returned"
    /\ UNCHANGED quizVars
    /\ UNCHANGED <<collectorVars, mergeVars, filterVars, classifyVars, curatorVars, planVars, runVars, botVars>>

\* get_quiz_questions: one pass of "for quiz in quizzes"
QuizStep ==
    LET \* the body of "for quiz in quizzes": a quiz due (or, without a due date,
        \* locked) at or after the exam is passed over; quiz.answer is what the server
        \* answers to the submissions request, an object or an array (an array body is
        \* held under the key array)
        QuizLoopBody(quiz, exam, collected) ==
            LET due_at == IF Truthy(Get(quiz, "due_at", None)) THEN quiz.due_at
                          ELSE Get(quiz, "lock_at", None)
                data == quiz.answer.json
            IN  IF Truthy(due_at) /\ StrptimeParse(due_at).ok
                   /\ ~DtLess(AsPacific(Strptime(due_at)), exam)
                THEN collected
                ELSE IF quiz.answer.status_code # 200 THEN collected
                ELSE SubmissionsLoop(IF quiz.answer.object
                                     THEN Get(data, "quiz_submissions", <<>>) ELSE data.array,
                                     collected, Get(quiz, "title", <<"Q", "u", "i", "z">>))
    IN
        /\ pc = "quiz loop"
        /\ quizzes # <<>>
        /\ all_quiz_questions' = QuizLoopBody(Head(quizzes), exam_date, all_quiz_questions)
        /\ quizzes' = Tail(quizzes)
        /\ UNCHANGED pc
        /\ UNCHANGED <<collectorVars, mergeVars, filterVars, classifyVars, curatorVars, planVars, runVars, botVars>>

\* get_quiz_questions: return all_quiz_questions
ReturnQuestions ==
    /\ pc = "quiz loop"
    /\ quizzes = <<>>
    /\ pc' = "questions returned"
    /\ UNCHANGED quizVars
    /\ UNCHANGED <<collectorVars, mergeVars, filterVars, classifyVars, curatorVars, planVars, runVars, botVars>>

NextQuiz ==
    \/ FetchQuizzes
    \/ QuizzesRequestRaises
    \/ QuizStep
    \/ ReturnQuestions

SpecQuiz == InitQuiz /\ [][NextQuiz]_vars

---------------------------------------------------------------------------
(* generate_ai_action_plan *)

\* longest response, counted in the pieces it is put together from
MaxPieces == 3

MarkerPlan == <<"A", "C", "T", "I", "O", "N", "_", "P", "L", "A", "N", ":">>
MarkerTips == <<"T", "I", "P", "S", ":">>

\* the first occurrence of sep in s at or after position from, 0 if there is none
FindFrom(sep, s, from) ==
    LET \* the positions at which sub occurs in text
        Occurrences(sub, text) ==
            {i \in 1..(Len(text) - Len(sub) + 1) : SubSeq(text, i, i + Len(sub) - 1) = sub}
        later == {i \in Occurrences(sep, s) : i >= from}
    IN  IF later = {} THEN 0 ELSE CHOOSE i \in later : \A k \in later : i <= k

\* s.strip()
Strip(s) == RStrip(LStrip(s))

\* generate_ai_action_plan, given what the request to the completions API gives:
\* an error of the request or of raise_for_status, a body without the content,
\* a content that is no text, or a text
generate_ai_action_plan(answer) ==
    LET \* the parse of ai_response
        ParsePlan(ai_response) ==
            LET \* s.split(sep)[1], for an s that contains sep: the text between the first
                \* occurrence of sep and the next one
                SplitSecond(sep, s) ==
                    LET start == FindFrom(sep, s, 1) + Len(sep)
                        next  == FindFrom(sep, s, start)
                    IN  SubSeq(s, start, IF next = 0 THEN Len(s) ELSE next - 1)
                \* s.split(sep)[0], for an s that contains sep
                SplitFirst(sep, s) == SubSeq(s, 1, FindFrom(sep, s, 1) - 1)
            IN
                IF Contains(MarkerPlan, ai_response)
                THEN LET plan_section == SplitSecond(MarkerPlan, ai_response)
                     IN  IF Contains(MarkerTips, plan_section)
                         THEN [action_plan |-> Strip(SplitFirst(MarkerTips, plan_section)),
                               tips |-> Strip(SplitSecond(MarkerTips, plan_section))]
                         ELSE [action_plan |-> Strip(plan_section), tips |-> <<>>]
                ELSE [action_plan |-> <<>>, tips |-> <<>>]
        \* the three characters that stand where a bullet was meant in the source text
        Bullet == <<"U+00E2", "U+20AC", "U+00A2">>
        \* the dict of the except clause
        FallbackPlan ==
            [action_plan |-> <<"1", ".", " ", "R", "e", "v", "i", "e", "w", " ", "r", "e", "q", "u", "i", "r", "e", "m", "e", "n", "t", "s", "\n", "2", ".", " ", "C", "o", "m", "p", "l", "e", "t", "e", " ", "w", "o", "r", "k", "\n", "3", ".", " ", "S", "u", "b", "m", "i", "t">>,
             tips |-> Bullet \o <<" ", "S", "t", "a", "r", "t", " ", "e", "a", "r", "l", "y", "\n">> \o Bullet \o <<" ", "C", "h", "e", "c", "k", " ", "r", "u", "b", "r", "i", "c">>]
    IN
        IF answer.kind = "content" THEN ParsePlan(answer.content) ELSE FallbackPlan

InitPlan ==
    LET \* pieces of which responses are put together
        Pieces == {MarkerPlan, MarkerTips, <<" ", "1", ".", " ", "a", "\n">>, <<"b", " ">>}
        AiResponses == {Concat(list) : list \in SeqUpTo(Pieces, MaxPieces)}
        AiAnswers ==
            { [kind |-> "request error"], [kind |-> "no content"], [kind |-> "content not text"] }
            \cup { [kind |-> "content", content |-> r] : r \in AiResponses }
    IN
        /\ pc = "plan request"
        /\ ai_answer \in AiAnswers
        /\ ai_plan = [action_plan |-> <<>>, tips |-> <<>>]
        /\ PlannerIdle /\ ClassifyIdle /\ CuratorIdle /\ QuizIdle /\ RunIdle /\ BotIdle

\* ai_plan = generate_ai_action_plan(assignment), the request answered with text
PlanFromResponse ==
    /\ pc = "plan request"
    /\ ai_answer.kind = "content"
    /\ ai_plan' = generate_ai_action_plan(ai_answer)
    /\ pc' = "plan returned"
    /\ UNCHANGED ai_answer
    /\ UNCHANGED <<collectorVars, mergeVars, filterVars, classifyVars, curatorVars, quizVars, runVars, botVars>>

\* ai_plan = generate_ai_action_plan(assignment), the try block raising
PlanFromFallback ==
    /\ pc = "plan request"
    /\ ai_answer.kind # "content"
    /\ ai_plan' = generate_ai_action_plan(ai_answer)
    /\ pc' = "plan returned"
    /\ UNCHANGED ai_answer
    /\ UNCHANGED <<collectorVars, mergeVars, filterVars, classifyVars, curatorVars, quizVars, runVars, botVars>>

NextPlan ==
    \/ PlanFromResponse
    \/ PlanFromFallback

SpecPlan == InitPlan /\ [][NextPlan]_vars

---------------------------------------------------------------------------
(* daily-canvas-planner.py: main after the collection, and the __main__ block *)

\* bound on the number of assignments collected in the modelled runs
MaxRunLen == 2

\* course_code = course.split('(')[0].strip() if '(' in course else course:
\* a null course name raises TypeError
FormattingRaises(items) == \E k \in 1..Len(items) : Get(items[k], "course_name", <<"U", "n", "k", "n", "o", "w", "n">>) = None

\* the sends of the summary and of one document per generated guide
SummarySends(guides) == <<"summary">> \o [k \in 1..Len(guides) |-> "document"]

InitRun ==
    LET \* planner records of the modelled runs, all due 2026-01-22T07:00:00Z
        RunRecord(title, context_name, points) ==
            [plannable |-> [title |-> title, points_possible |-> points, html_url |-> <<"u">>],
             plannable_date |-> IsoZ(Seconds(2026, 1, 22, 7, 0, 0)),
             context_name |-> context_name]
        RunRecords ==
            { RunRecord(<<"F", "i", "n", "a", "l", " ", "E", "x", "a", "m">>, <<"K">>, 50),
              RunRecord(<<"E", "x", "a", "m", " ", "3">>, <<"K">>, NoneNumber),
              RunRecord(<<"Q", "u", "i", "z", " ", "1">>, <<"K">>, 10),
              RunRecord(<<"Q", "u", "i", "z", " ", "1">>, None, 10),
              RunRecord(None, <<"K">>, 10) }
        \* the assignment dicts the collector builds from them
        RunItems == {PlannerAssignment(item) : item \in RunRecords}
    IN
        /\ pc = "collected"
        /\ ClassifyIdle /\ CuratorIdle /\ ExtIdle
        /\ all_assignments \in SeqUpTo(RunItems, MaxRunLen)
        /\ now = 0
        /\ due_soon = <<>>
        /\ inst = NumInstances + 1
        /\ assignments = <<>>
        /\ all_items = <<>>
        /\ seen_items = {}
        /\ planner_items = <<>>
        /\ courses = <<>>
        /\ course_assignments = <<>>
        /\ status_code = 0
        /\ listA = <<>> /\ listB = <<>> /\ listC = <<>>
        /\ merged_once = <<>> /\ merged_nested = <<>>

\* due_soon = filter_due_next_3_days(all_assignments), with the listing of the
\* kept assignments that ends the function
RunFilter ==
    LET \* print(f"      - {a['name'][:40]:<40} | {due_str}") for a in due_soon:
        \* subscripting a null name raises TypeError
        ListingRaises(items) == \E k \in 1..Len(items) : items[k].name = None
        \* instants of the modelled runs: one with the records in the window, one after it
        RunNows == {ClassifyNow, Seconds(2026, 3, 7, 8, 0, 0)}
    IN
        /\ pc = "collected"
        /\ \E t \in RunNows :
            /\ now' = t
            /\ all_assignments' = EnrichedInPlace(all_assignments, t)
            /\ IF ListingRaises(FilterDueNext3Days(all_assignments, t))
               THEN /\ pc' = "raised"
                    /\ main_error' = "TypeError"
                    /\ UNCHANGED due_soon
               ELSE /\ pc' = "filtered"
                    /\ due_soon' = FilterDueNext3Days(all_assignments, t)
                    /\ UNCHANGED main_error
        /\ UNCHANGED <<inst, assignments, all_items, seen_items, planner_items, courses,
                       course_assignments, status_code>>
        /\ UNCHANGED <<guide_pos, study_guides_generated, generate_calls, notifications, send_ok, exit_status>>
        /\ UNCHANGED <<mergeVars, classifyVars, curatorVars, quizVars, planVars, botVars>>

\* major_tests = [a for a in due_soon if is_major_test(a)]
DetectMajor ==
    LET \* the first exception is_major_test raises over the items, "" if none
        RECURSIVE FirstRaise(_)
        FirstRaise(items) ==
            IF items = <<>> THEN ""
            ELSE IF is_major_test(Head(items)).raised # "" THEN is_major_test(Head(items)).raised
            ELSE FirstRaise(Tail(items))
    IN
        /\ pc = "filtered"
        /\ IF FirstRaise(due_soon) # ""
           THEN /\ pc' = "raised"
                /\ main_error' = FirstRaise(due_soon)
           ELSE /\ pc' = "guides"
                /\ UNCHANGED main_error
        /\ UNCHANGED <<guide_pos, study_guides_generated, generate_calls, notifications, send_ok, exit_status>>
        /\ UNCHANGED <<collectorVars, mergeVars, filterVars, classifyVars, curatorVars, quizVars, planVars, botVars>>

\* for assignment in due_soon: if is_major_test(assignment): an assignment that is not major
GuideSkip ==
    /\ pc = "guides"
    /\ guide_pos.a <= Len(due_soon)
    /\ ~is_major_test(due_soon[guide_pos.a]).value
    /\ guide_pos' = [a |-> guide_pos.a + 1, i |-> 1]
    /\ UNCHANGED <<study_guides_generated, generate_calls, notifications, send_ok, main_error, exit_status>>
    /\ UNCHANGED <<pc, collectorVars, mergeVars, filterVars, classifyVars, curatorVars, quizVars, planVars, botVars>>

\* the body of "for instance in CANVAS_INSTANCES" for a major assignment: the
\* courses request, the search of the course by name, generate_study_guide for
\* the first course found; the break leaves the loop over the courses
GuideInstance ==
    LET \* the position after the instance i of the assignment a
        NextPosition(pos) ==
            IF pos.i < NumInstances THEN [a |-> pos.a, i |-> pos.i + 1]
            ELSE [a |-> pos.a + 1, i |-> 1]
        \* for course in courses: if course.get('name') == course_name: ...; break
        CourseFound(answer, course_name) ==
            /\ answer.kind = "response"
            /\ answer.status_code = 200
            /\ \E k \in 1..Len(answer.courses) : Get(answer.courses[k], "name", None) = course_name
        \* outcomes of generate_study_guide: a path, None, or an exception
        GuidePath == <<"g", ".", "d", "o", "c", "x">>
        GenerateOutcomes == {"path", "none", "raise"}
        \* answers of an instance to the courses request of the study guide loop
        CourseAnswers ==
            { [kind |-> "raise", status_code |-> 0, courses |-> <<>>],
              [kind |-> "response", status_code |-> 404, courses |-> <<>>],
              [kind |-> "response", status_code |-> 200, courses |-> <<>>],
              [kind |-> "response", status_code |-> 200, courses |-> <<[id |-> 2, name |-> <<"L">>, workflow_state |-> <<"completed">>]>>],
              [kind |-> "response", status_code |-> 200, courses |-> <<RC1>>],
              [kind |-> "response", status_code |-> 200, courses |-> <<[id |-> 2, name |-> <<"L">>, workflow_state |-> <<"completed">>], RC1, RC1>>] }
    IN
        /\ pc = "guides"
        /\ guide_pos.a <= Len(due_soon)
        /\ is_major_test(due_soon[guide_pos.a]).value
        /\ \E answer \in CourseAnswers, outcome \in GenerateOutcomes :
            LET assignment == due_soon[guide_pos.a]
                found == CourseFound(answer, Get(assignment, "course_name", <<>>))
                output_path == IF outcome = "path" THEN GuidePath ELSE None
            IN  /\ generate_calls' =
                    IF found
                    THEN Append(generate_calls, [assignment |-> guide_pos.a, instance |-> guide_pos.i,
                                                 output_path |-> output_path])
                    ELSE generate_calls
                /\ study_guides_generated' =
                    IF found /\ outcome = "path"
                    THEN Append(study_guides_generated, [exam |-> assignment.name, path |-> output_path])
                    ELSE study_guides_generated
                /\ guide_pos' = NextPosition(guide_pos)
        /\ UNCHANGED <<notifications, send_ok, main_error, exit_status>>
        /\ UNCHANGED <<pc, collectorVars, mergeVars, filterVars, classifyVars, curatorVars, quizVars, planVars, botVars>>

\* the loop over due_soon is exhausted
GuidesDone ==
    /\ pc = "guides"
    /\ guide_pos.a > Len(due_soon)
    /\ pc' = "notify"
    /\ UNCHANGED runVars
    /\ UNCHANGED <<collectorVars, mergeVars, filterVars, classifyVars, curatorVars, quizVars, planVars, botVars>>

\* the notification stage, were the outcome of classification cached in the items
NotifyCaching ==
    /\ pc = "notify"
    /\ due_soon # <<>>
    /\ ~FormattingRaises(due_soon)
    /\ due_soon' = [k \in 1..Len(due_soon) |->
                        due_soon[k] @@ [is_major |-> is_major_test(due_soon[k]).value]]
    /\ notifications' = SummarySends(study_guides_generated)
    /\ send_ok' \in BOOLEAN
    /\ pc' = "returned"
    /\ UNCHANGED <<guide_pos, study_guides_generated, generate_calls, main_error, exit_status>>
    /\ UNCHANGED <<now, collectorVars, mergeVars, classifyVars, curatorVars, quizVars, planVars, botVars>>

\* the notification stage: the all clear message, or the summary grouped by
\* date followed by one document per generated guide
Notify ==
    /\ pc = "notify"
    /\ IF due_soon = <<>>
       THEN /\ notifications' = <<"all clear">>
            /\ send_ok' \in BOOLEAN
            /\ pc' = "returned"
            /\ UNCHANGED main_error
       ELSE IF FormattingRaises(due_soon)
       THEN /\ pc' = "raised"
            /\ main_error' = "TypeError"
            /\ UNCHANGED <<notifications, send_ok>>
       ELSE /\ notifications' = SummarySends(study_guides_generated)
            /\ send_ok' \in BOOLEAN
            /\ pc' = "returned"
            /\ UNCHANGED main_error
    /\ UNCHANGED <<guide_pos, study_guides_generated, generate_calls, exit_status>>
    /\ UNCHANGED <<collectorVars, mergeVars, filterVars, classifyVars, curatorVars, quizVars, planVars, botVars>>

\* main() returned: the interpreter ends with status 0
ExitOk ==
    /\ pc = "returned"
    /\ pc' = "exited"
    /\ exit_status' = 0
    /\ UNCHANGED <<guide_pos, study_guides_generated, generate_calls, notifications, send_ok, main_error>>
    /\ UNCHANGED <<collectorVars, mergeVars, filterVars, classifyVars, curatorVars, quizVars, planVars, botVars>>

\* an except clause that gives up the exit when the notification failed
NotifyFailureOrGiveUp ==
    /\ pc = "raised"
    /\ notifications' = Append(notifications, "failure")
    /\ send_ok' \in BOOLEAN
    /\ pc' = IF send_ok' THEN "failure notified" ELSE "returned"
    /\ UNCHANGED <<guide_pos, study_guides_generated, generate_calls, main_error, exit_status>>
    /\ UNCHANGED <<collectorVars, mergeVars, filterVars, classifyVars, curatorVars, quizVars, planVars, botVars>>

\* except Exception as e: send_telegram_message(error_message), which returns
\* True or False and never raises
NotifyFailure ==
    /\ pc = "raised"
    /\ notifications' = Append(notifications, "failure")
    /\ send_ok' \in BOOLEAN
    /\ pc' = "failure notified"
    /\ UNCHANGED <<guide_pos, study_guides_generated, generate_calls, main_error, exit_status>>
    /\ UNCHANGED <<collectorVars, mergeVars, filterVars, classifyVars, curatorVars, quizVars, planVars, botVars>>

\* print(f"Error: {e}"); sys.exit(1)
ExitFailure ==
    /\ pc = "failure notified"
    /\ pc' = "exited"
    /\ exit_status' = 1
    /\ UNCHANGED <<guide_pos, study_guides_generated, generate_calls, notifications, send_ok, main_error>>
    /\ UNCHANGED <<collectorVars, mergeVars, filterVars, classifyVars, curatorVars, quizVars, planVars, botVars>>

NextRun ==
    \/ RunFilter
    \/ DetectMajor
    \/ GuideSkip
    \/ GuideInstance
    \/ GuidesDone
    \/ Notify
    \/ ExitOk
    \/ NotifyFailure
    \/ ExitFailure

SpecRun == InitRun /\ [][NextRun]_vars

---------------------------------------------------------------------------
(* telegram-bot-listener.py: the handlers and run_pipeline *)

\* bound on the updates dispatched in a run of the bot
MaxUpdates == 2

\* bound on the clock ticks spent reading the output of one subprocess
MaxTicks == 5

\* the clock advances in steps of 100 seconds
TickSeconds == 100

\* process.wait(timeout=300)
PipelineTimeout == 300

\* the variables of the planner, which the bot's process does not hold
plannerVars == <<collectorVars, mergeVars, filterVars, classifyVars, curatorVars,
                 quizVars, planVars, runVars>>

\* str(n) for a chat id
RECURSIVE DecimalStr(_)
DecimalStr(n) ==
    IF n < 0 THEN <<"-">> \o DecimalStr(0 - n)
    ELSE IF n < 10 THEN <<Digits[n + 1]>>
    ELSE DecimalStr(n \div 10) \o <<Digits[(n % 10) + 1]>>

\* TELEGRAM_CHAT_ID, a string of the environment
TELEGRAM_CHAT_ID == <<"7">>

\* chats that send updates: the configured one and two others
Chats == {7, 70, -7}

TimedOutMessage == <<"P", "i", "p", "e", "l", "i", "n", "e", " ", "t", "i", "m", "e", "d", " ", "o", "u", "t", " ", "a", "f", "t", "e", "r", " ", "5", " ", "m", "i", "n", "u", "t", "e", "s">>

\* update.message.reply_text(text)
Reply(chat, text, detail) == Append(replies, [chat |-> chat, text |-> text, detail |-> detail])

InitBot ==
    /\ pc = "polling"
    /\ PlannerIdle /\ ClassifyIdle /\ CuratorIdle /\ ExtIdle

\* CommandHandler("start", start_command): the reply goes to the chat of the update
StartCommand ==
    /\ pc = "polling"
    /\ updates_handled < MaxUpdates
    /\ \E chat \in Chats : replies' = Reply(chat, "Canvas Automation Bot", <<>>)
    /\ updates_handled' = updates_handled + 1
    /\ UNCHANGED <<pc, update, pipeline_runs, process, clock, wait_started, result>>
    /\ UNCHANGED plannerVars

\* CommandHandler("help", help_command): await start_command(update, context)
HelpCommand ==
    /\ pc = "polling"
    /\ updates_handled < MaxUpdates
    /\ \E chat \in Chats : replies' = Reply(chat, "Canvas Automation Bot", <<>>)
    /\ updates_handled' = updates_handled + 1
    /\ UNCHANGED <<pc, update, pipeline_runs, process, clock, wait_started, result>>
    /\ UNCHANGED plannerVars

\* CommandHandler("status", status_command)
StatusCommand ==
    /\ pc = "polling"
    /\ updates_handled < MaxUpdates
    /\ \E chat \in Chats : replies' = Reply(chat, "[OK] Bot Status: Online", <<>>)
    /\ updates_handled' = updates_handled + 1
    /\ UNCHANGED <<pc, update, pipeline_runs, process, clock, wait_started, result>>
    /\ UNCHANGED plannerVars

\* handle_message for a text that is not a command, up to the start of the
\* subprocess when the text is TEST; Popen starts the process or raises
HandleMessage ==
    LET \* str.upper()
        Upper(s) ==
            LET UpperChar(c) ==
                    IF \E n \in 1..26 : LowerLetters[n] = c
                    THEN UpperLetters[CHOOSE n \in 1..26 : LowerLetters[n] = c]
                    ELSE c
            IN
                [i \in 1..Len(s) |-> UpperChar(s[i])]
        \* texts of the messages that are not commands
        MessageTexts ==
            { <<"t", "e", "s", "t">>, <<" ", "T", "e", "s", "t", "\n">>, <<"s", "t", "a", "t", "u", "s">>,
              <<"H", "e", "l", "p">>, <<"t", "e", "s", "t", "s">>, <<>> }
    IN
        /\ pc = "polling"
        /\ updates_handled < MaxUpdates
        /\ updates_handled' = updates_handled + 1
        /\ \E chat \in Chats, message \in MessageTexts, started \in BOOLEAN :
            LET text == Upper(Strip(message))
            IN  IF DecimalStr(chat) # TELEGRAM_CHAT_ID
                THEN UNCHANGED <<pc, update, replies, pipeline_runs, process, clock, wait_started, result>>
                ELSE IF text = <<"T", "E", "S", "T">>
                THEN /\ replies' = Reply(chat, "Running Canvas pipeline...", <<>>)
                     /\ update' = [chat |-> chat, kind |-> "message", text |-> message]
                     /\ pipeline_runs' = Append(pipeline_runs, chat)
                     /\ clock' = 0
                     /\ wait_started' = -1
                     /\ IF started
                        THEN /\ process' = [state |-> "running", stdout_open |-> TRUE,
                                            returncode |-> 0, finished_at |-> -1]
                             /\ pc' = "streaming"
                             /\ UNCHANGED result
                        ELSE /\ result' = [success |-> FALSE, stderr |-> <<"[", "E", "r", "r", "n", "o", " ", "2", "]">>]
                             /\ pc' = "pipeline returned"
                             /\ UNCHANGED process
                ELSE IF text = <<"S", "T", "A", "T", "U", "S">>
                THEN /\ replies' = Reply(chat, "[OK] Bot Status: Online", <<>>)
                     /\ UNCHANGED <<pc, update, pipeline_runs, process, clock, wait_started, result>>
                ELSE IF text = <<"H", "E", "L", "P">>
                THEN /\ replies' = Reply(chat, "Canvas Automation Bot", <<>>)
                     /\ UNCHANGED <<pc, update, pipeline_runs, process, clock, wait_started, result>>
                ELSE UNCHANGED <<pc, update, replies, pipeline_runs, process, clock, wait_started, result>>
        /\ UNCHANGED plannerVars

\* time passes while run_pipeline is blocked: reading the pipe has no time
\* limit; an end of file is read at once; wait returns at once for a process
\* that has exited and no later than its timeout for one that has not
Tick ==
    /\ \/ pc = "streaming" /\ process.stdout_open /\ clock < MaxTicks * TickSeconds
       \/ pc = "waiting" /\ process.state = "running" /\ clock - wait_started < PipelineTimeout
    /\ clock' = clock + TickSeconds
    /\ UNCHANGED <<pc, update, updates_handled, replies, pipeline_runs, process, wait_started, result>>
    /\ UNCHANGED plannerVars

\* the subprocess exits, which closes its end of the pipe
ProcessExits ==
    /\ pc \in {"streaming", "waiting"}
    /\ process.state = "running"
    /\ \E returncode \in {0, 1} :
        process' = [state |-> "exited", stdout_open |-> FALSE, returncode |-> returncode,
                    finished_at |-> clock]
    /\ UNCHANGED <<pc, update, updates_handled, replies, pipeline_runs, clock, wait_started, result>>
    /\ UNCHANGED plannerVars

\* the subprocess closes its output and goes on running
ProcessClosesOutput ==
    /\ pc = "streaming"
    /\ process.state = "running"
    /\ process.stdout_open
    /\ process' = [process EXCEPT !.stdout_open = FALSE]
    /\ UNCHANGED <<pc, update, updates_handled, replies, pipeline_runs, clock, wait_started, result>>
    /\ UNCHANGED plannerVars

\* for line in process.stdout: the loop ends at the end of file; then
\* process.wait(timeout=300) is called
StreamEnds ==
    /\ pc = "streaming"
    /\ ~process.stdout_open
    /\ pc' = "waiting"
    /\ wait_started' = clock
    /\ UNCHANGED <<update, updates_handled, replies, pipeline_runs, process, clock, result>>
    /\ UNCHANGED plannerVars

\* process.wait returns: return process.returncode == 0, output, ""
WaitReturns ==
    /\ pc = "waiting"
    /\ process.state = "exited"
    /\ result' = [success |-> process.returncode = 0, stderr |-> <<>>]
    /\ pc' = "pipeline returned"
    /\ UNCHANGED <<update, updates_handled, replies, pipeline_runs, process, clock, wait_started>>
    /\ UNCHANGED plannerVars

\* except subprocess.TimeoutExpired: process.kill(); return False, "", "Pipeline timed out after 5 minutes"
WaitTimesOut ==
    /\ pc = "waiting"
    /\ process.state = "running"
    /\ clock - wait_started >= PipelineTimeout
    /\ process' = [process EXCEPT !.state = "killed"]
    /\ result' = [success |-> FALSE, stderr |-> TimedOutMessage]
    /\ pc' = "pipeline returned"
    /\ UNCHANGED <<update, updates_handled, replies, pipeline_runs, clock, wait_started>>
    /\ UNCHANGED plannerVars

\* handle_message after run_pipeline returned: the reply with the outcome
ReplyOutcome ==
    LET \* error_msg = stderr[:500] if stderr else "Unknown error"
        ErrorMsg(stderr) ==
            IF stderr # <<>> THEN SubSeq(stderr, 1, IF Len(stderr) < 500 THEN Len(stderr) ELSE 500)
            ELSE <<"U", "n", "k", "n", "o", "w", "n", " ", "e", "r", "r", "o", "r">>
    IN
        /\ pc = "pipeline returned"
        /\ replies' = IF result.success THEN Reply(update.chat, "[OK] Pipeline completed!", <<>>)
                      ELSE Reply(update.chat, "[ERROR] Pipeline failed:", ErrorMsg(result.stderr))
        /\ pc' = "polling"
        /\ update' = NoUpdate
        /\ UNCHANGED <<updates_handled, pipeline_runs, process, clock, wait_started, result>>
        /\ UNCHANGED plannerVars

NextBot ==
    \/ StartCommand
    \/ HelpCommand
    \/ StatusCommand
    \/ HandleMessage
    \/ Tick
    \/ ProcessExits
    \/ ProcessClosesOutput
    \/ StreamEnds
    \/ WaitReturns
    \/ WaitTimesOut
    \/ ReplyOutcome

SpecBot == InitBot /\ [][NextBot]_vars

---------------------------------------------------------------------------
(* Properties of the collector *)

SameIdentity(x, y) == x.name = y.name /\ x.due_at = y.due_at

NoTwoWithEqualIdentity(items) ==
    \A i, j \in 1..Len(items) : i # j => ~SameIdentity(items[i], items[j])

HasIdentity(items, y) == \E i \in 1..Len(items) : SameIdentity(items[i], y)

IsPrefix(s, t) == Len(s) <= Len(t) /\ SubSeq(t, 1, Len(s)) = s

\* C1: once every instance is collected, the aggregated list main hands on holds
\* no two items with equal (name, due_at)
C1_AggregateHasNoDuplicates ==
    pc = "collected" => NoTwoWithEqualIdentity(all_assignments)

\* C2: within one instance, neither the list being collected nor the list
\* returned ever holds two items with equal (name, due_at)
C2_InstanceHasNoDuplicates ==
    /\ NoTwoWithEqualIdentity(all_items)
    /\ pc = "extend" => NoTwoWithEqualIdentity(assignments)

\* C2 witness: an assignments response held the same record twice, with a
\* deadline, and the instance returned it
C2_Witness ==
    /\ pc = "extend"
    /\ Len(course_assignments) = 2
    /\ course_assignments[1] = course_assignments[2]
    /\ ~SkipsNoDeadline(course_assignments[1])
    /\ HasIdentity(assignments, CourseAssignment(course_assignments[1], RC1))

\* C3: a record is dropped only as a duplicate of a collected record with exactly
\* its name and due_at: every planner record, and every enumeration record the
\* loop does not skip, has its (name, due_at) among the collected items
C3_DroppedOnlyIfEqualIdentity ==
    pc \in {"courses", "assignments"} =>
        /\ \A i \in 1..Len(planner_items) :
              HasIdentity(all_items, PlannerAssignment(planner_items[i]))
        /\ \A i \in 1..Len(course_assignments) :
              ~SkipsNoDeadline(course_assignments[i]) =>
                  HasIdentity(all_items, CourseAssignment(course_assignments[i], RC1))

\* C4: when the planner view and the enumeration both returned a record with the
\* same (name, due_at), the list about to be returned holds exactly one record
\* with that identity, and it is a planner-built one
C4_PlannerRecordWins ==
    (pc = "assignments" /\ courses = <<>>) =>
        \A i \in 1..Len(planner_items), j \in 1..Len(course_assignments) :
            LET p == PlannerAssignment(planner_items[i])
                e == CourseAssignment(course_assignments[j], RC1)
            IN  SameIdentity(p, e) =>
                  /\ Cardinality({k \in 1..Len(all_items) : SameIdentity(all_items[k], p)}) = 1
                  /\ \A k \in 1..Len(all_items) :
                        SameIdentity(all_items[k], p) =>
                            \E q \in 1..Len(planner_items) :
                                all_items[k] = PlannerAssignment(planner_items[q])

\* C5: merging the merge of A and B with C gives the list that merging A, B and
\* C in one pass gives, and merging a merged list again changes nothing
C5_MergeAssociative ==
    pc = "merged" =>
        /\ merged_nested = merged_once
        /\ Merge(<<merged_once>>) = merged_once

\* C5 witness: duplicates were dropped inside A and B, and again against C
C5_Witness ==
    /\ pc = "merged"
    /\ Len(Merge(<<listA, listB>>)) < Len(listA) + Len(listB)
    /\ Len(merged_once) < Len(Merge(<<listA, listB>>)) + Len(listC)
    /\ Len(merged_once) >= 2

\* C6 as claimed: every enumeration record without a deadline is retained
C6_NoDeadlineRetained ==
    pc = "assignments" =>
        \A i \in 1..Len(course_assignments) :
            SkipsNoDeadline(course_assignments[i]) =>
                \E k \in 1..Len(all_items) :
                    /\ SameIdentity(all_items[k], CourseAssignment(course_assignments[i], RC1))
                    /\ all_items[k].html_url = Get(course_assignments[i], "html_url", <<"#">>)

\* C6 amended: the enumeration never adds a record without a deadline; a
\* collected item without a deadline was built from a planner record
C6_NoDeadlineOnlyFromPlanner ==
    \A k \in 1..Len(all_items) :
        ~Truthy(all_items[k].due_at) =>
            \E q \in 1..Len(planner_items) :
                all_items[k] = PlannerAssignment(planner_items[q])

\* C6 witness: a 200 assignments response held a record without a deadline next
\* to one with a deadline, and only the latter was collected
C6_Witness ==
    /\ pc = "assignments"
    /\ status_code = 200
    /\ Len(course_assignments) = 2
    /\ SkipsNoDeadline(course_assignments[1])
    /\ ~SkipsNoDeadline(course_assignments[2])
    /\ planner_items = <<>>
    /\ Len(all_items) = 1

\* C7: a sub-call answered with a status other than 200 adds nothing and removes
\* nothing, and control goes on to the next sub-call; no step of the collection
\* short of the except clause loses a collected item; the list returned is the
\* list collected, and main appends it whole to what earlier instances gave
C7_FailedStatusDegradesToEmpty ==
    [][ /\ (pc \in {"planner", "courses", "assignments"} /\ pc' # "except"
             /\ status_code' # 200 /\ status_code' # 0)
            => (all_items' = all_items /\ seen_items' = seen_items
                /\ pc' \in {"courses", "assignments", "extend"})
        /\ (pc \in {"planner", "courses", "assignments"} /\ pc' # "except")
            => IsPrefix(all_items, all_items')
        /\ (pc = "assignments" /\ pc' = "extend") => assignments' = all_items
        /\ pc = "extend" => all_assignments' = all_assignments \o assignments
      ]_vars

\* C7 witness: in the last instance an assignments call came back non-200 after
\* the planner had given items, and the first instance's items are still there
C7_Witness ==
    /\ inst = NumInstances
    /\ pc = "assignments"
    /\ status_code = 404
    /\ all_items # <<>>
    /\ all_assignments # <<>>

\* C8: when a call raises, the items collected before it for this instance are
\* still returned
C8_RaiseKeepsCollected ==
    [][ pc = "except" =>
            \A i \in 1..Len(all_items) : HasIdentity(assignments', all_items[i]) ]_vars

---------------------------------------------------------------------------
(* Properties of the window filter *)

\* the returned list holds the assignment (recognised by its name and due_at)
Returned(a) ==
    \E j \in 1..Len(due_soon) :
        due_soon[j].name = a.name /\ due_soon[j].due_at = a.due_at

\* the due_at is present and matches the format
Parses(a) == Truthy(a.due_at) /\ StrptimeParse(a.due_at).ok

\* the instant the filter's cutoff datetime denotes
CutoffInstant == InstantOf(Cutoff(AsPacific(now)))

\* C9: an item is returned if and only if its due_at is present, parses, and its
\* deadline d satisfies now <= d <= cutoff, both bounds inclusive: a deadline
\* before now, were it by one second, is dropped
C9_ReturnedIffInWindow ==
    pc = "filtered" =>
        \A i \in 1..Len(all_assignments) :
            LET a == all_assignments[i]
            IN  Returned(a) <=>
                    /\ Parses(a)
                    /\ now <= Strptime(a.due_at)
                    /\ Strptime(a.due_at) <= CutoffInstant

\* C10: an item due at 01:50 local time on the calendar day today + 3 is
\* returned whatever the time of day of now, and whether an item that is not
\* past is returned depends only on how its deadline instant compares with the
\* cutoff instant
C10_CutoffIsOneInstant ==
    pc = "filtered" =>
        \A i \in 1..Len(all_assignments) :
            LET a == all_assignments[i]
            IN  /\ a.due_at = IsoZ(Day4At0150(now)) => Returned(a)
                /\ (Parses(a) /\ now <= Strptime(a.due_at)) =>
                        (Returned(a) <=> Strptime(a.due_at) <= CutoffInstant)

---------------------------------------------------------------------------
(* Properties of the classifier's parsing, order and enrichment *)

\* the text is written exactly as YYYY-MM-DDTHH:MM:SSZ
MatchesLiteralFormat(s) ==
    /\ Len(s) = 20
    /\ \A i \in {1, 2, 3, 4, 6, 7, 9, 10, 12, 13, 15, 16, 18, 19} : IsDigit(s[i])
    /\ s[5] = "-" /\ s[8] = "-" /\ s[11] = "T"
    /\ s[14] = ":" /\ s[17] = ":" /\ s[20] = "Z"

\* the due_at is absent or is not written in the literal format
Unparsable(a) == ~Truthy(a.due_at) \/ ~MatchesLiteralFormat(a.due_at)

\* the items of a list that are not Unparsable, in their order
RECURSIVE WithoutUnparsable(_)
WithoutUnparsable(items) ==
    IF items = <<>> THEN <<>>
    ELSE (IF Unparsable(Head(items)) THEN <<>> ELSE <<Head(items)>>)
         \o WithoutUnparsable(Tail(items))

\* C11: the call returns (it does not raise); an item whose due_at is absent or
\* not in the literal format YYYY-MM-DDTHH:MM:SSZ is not in the output; and the
\* output is the one the call gives for the input without those items
C11_UnparsableDroppedWithoutEffect ==
    pc = "filtered" =>
        /\ \A i \in 1..Len(all_assignments) :
              Unparsable(all_assignments[i]) => ~Returned(all_assignments[i])
        /\ due_soon = FilterDueNext3Days(WithoutUnparsable(all_assignments), now)

\* the item was kept by the call: it carries the fields the loop sets
Kept(a) == "due_datetime_parsed" \in DOMAIN a

\* the instant of a kept item's localized deadline
Deadline(a) == InstantOf(a.due_datetime_parsed)

\* how many times x occurs in a list
Count(items, x) == Cardinality({i \in 1..Len(items) : items[i] = x})

\* the kept items of a list whose deadline is the instant d, in their order
RECURSIVE KeptWithDeadline(_, _)
KeptWithDeadline(items, d) ==
    IF items = <<>> THEN <<>>
    ELSE (IF Kept(Head(items)) /\ Deadline(Head(items)) = d THEN <<Head(items)>> ELSE <<>>)
         \o KeptWithDeadline(Tail(items), d)

\* C12: the output is in ascending order of localized deadline; items with
\* equal deadlines are in the order they have in the input; and no item occurs
\* more often in the output than in the input
C12_SortedStableSubMultiset ==
    pc = "filtered" =>
        /\ \A i, j \in 1..Len(due_soon) :
              i < j => Deadline(due_soon[i]) <= Deadline(due_soon[j])
        /\ \A i \in 1..Len(due_soon) :
              KeptWithDeadline(due_soon, Deadline(due_soon[i]))
                = KeptWithDeadline(all_assignments, Deadline(due_soon[i]))
        /\ \A i \in 1..Len(due_soon) :
              Count(due_soon, due_soon[i]) <= Count(all_assignments, due_soon[i])

\* C13: for every kept item, due_datetime_parsed denotes the instant of due_at
\* and reads as that instant does in America/Los_Angeles, and due_date_parsed is
\* the date of that local reading: 2026-01-25T10:00:00Z gives 02:00:00 on
\* 2026-01-25, and at UTC-8 a due_at before 08:00Z gives the date before the
\* UTC date
C13_LocalInstantAndDate ==
    pc = "filtered" =>
        \A i \in 1..Len(due_soon) :
            LET a   == due_soon[i]
                utc == Strptime(a.due_at)
            IN  /\ InstantOf(a.due_datetime_parsed) = utc
                /\ a.due_datetime_parsed.wall = utc + UtcOffset(utc)
                /\ a.due_date_parsed = a.due_datetime_parsed.wall \div DaySeconds
                /\ a.due_at = IsoZ(Seconds(2026, 1, 25, 10, 0, 0)) =>
                      /\ a.due_datetime_parsed.wall = Seconds(2026, 1, 25, 2, 0, 0)
                      /\ a.due_date_parsed = DaysFromCivil(2026, 1, 25)
                /\ (UtcOffset(utc) = -8 * HourSeconds /\ utc % DaySeconds < 8 * HourSeconds) =>
                      a.due_date_parsed = utc \div DaySeconds - 1

\* C13 witness: the items due at 2026-01-25T10:00:00Z and at 2026-01-25T07:59:59Z
\* were both kept
C13_Witness ==
    /\ pc = "filtered"
    /\ Len(due_soon) = 2
    /\ due_soon[1].due_at = EveningDue
    /\ due_soon[1].due_date_parsed = DaysFromCivil(2026, 1, 24)
    /\ due_soon[2].due_at = IsoZ(Seconds(2026, 1, 25, 10, 0, 0))

---------------------------------------------------------------------------
(* Properties of the importance classifier *)

\* the phrases of rule (a) and of rule (c)
MajorPhrases ==
    { <<"m", "i", "d", "t", "e", "r", "m">>, <<"f", "i", "n", "a", "l", " ", "e", "x", "a", "m">>,
      <<"f", "i", "n", "a", "l", " ", "t", "e", "s", "t">>,
      <<"m", "i", "d", "t", "e", "r", "m", " ", "e", "x", "a", "m">> }
ProctoringPhrases ==
    { <<"r", "e", "s", "p", "o", "n", "d", "u", "s">>,
      <<"l", "o", "c", "k", "d", "o", "w", "n", " ", "b", "r", "o", "w", "s", "e", "r">> }

\* the text v, a string or null, contains the phrase, whatever the case
HasPhrase(v, phrase) == v # None /\ Contains(phrase, Lower(v))

\* rules (a), (b) and (c) on an item
MajorByRule(a) ==
    \/ \E phrase \in MajorPhrases : HasPhrase(a.name, phrase)
    \/ /\ HasPhrase(a.name, <<"e", "x", "a", "m">>)
       /\ a.points_possible # NoneNumber
       /\ a.points_possible >= 50
    \/ \E phrase \in ProctoringPhrases : HasPhrase(a.description, phrase)

\* C14: is_major_test returns True if and only if rule (a), (b) or (c) holds for
\* the item; Exam 3 with 40 points and no proctoring description gives False,
\* and with 50 points True
C14_MajorIffRule ==
    pc = "major_test" =>
        /\ major_test = Returns(TRUE) <=> MajorByRule(work_item)
        /\ (/\ work_item.name = <<"E", "x", "a", "m", " ", "3">>
            /\ ~\E phrase \in ProctoringPhrases : HasPhrase(work_item.description, phrase))
           => /\ work_item.points_possible = 40 => major_test = Returns(FALSE)
              /\ work_item.points_possible = 50 => major_test = Returns(TRUE)

\* the name, points and description part of the source record, and the key
\* the name is under
SourceFields == Get(raw_record, "plannable", raw_record)
NameKey == IF "plannable" \in DOMAIN raw_record THEN "title" ELSE "name"

\* the field is missing from the record, or null
AbsentText(rec, k) == k \notin DOMAIN rec \/ rec[k] = None
AbsentNumber(rec, k) == k \notin DOMAIN rec \/ rec[k] = NoneNumber

\* C15: when the name, the points or the description is missing or null in the
\* source record, the item built has Unnamed, 0 or the empty text for it; and
\* is_major_test never raises on an item the collector built
C15_AbsentFieldsDefaulted ==
    /\ pc \in {"item", "due_soon", "major_test", "priority_symbol"} =>
          /\ AbsentText(SourceFields, NameKey) => work_item.name = <<"U", "n", "n", "a", "m", "e", "d">>
          /\ AbsentNumber(SourceFields, "points_possible") => work_item.points_possible = 0
          /\ AbsentText(SourceFields, "description") => work_item.description = <<>>
    /\ pc = "major_test" => major_test.raised = ""

\* the date today in the target zone when get_priority_symbol is called
TargetToday == DateOf(AsPacific(ClassifyNow))

\* C16: get_priority_symbol always returns a symbol; it returns the highest one
\* for an item is_major_test holds for, whatever its due date; otherwise the
\* due-today one when the item's local due date is today, the due-tomorrow one
\* when it is tomorrow, and the normal one in every other case
C16_PrioritySymbol ==
    pc = "priority_symbol" =>
        /\ priority_symbol.raised = ""
        /\ is_major_test(work_item) = Returns(TRUE) =>
              priority_symbol = Returns("rotating light")
        /\ is_major_test(work_item) = Returns(FALSE) =>
              priority_symbol = Returns(
                  IF "due_date_parsed" \notin DOMAIN work_item THEN "clipboard"
                  ELSE IF work_item.due_date_parsed = TargetToday THEN "warning sign"
                  ELSE IF work_item.due_date_parsed = TargetToday + 1 THEN "pushpin"
                  ELSE "clipboard")

---------------------------------------------------------------------------
(* Properties of the content curator *)

\* the denylist terms, and the week, chapter and module markers
DenylistTerms ==
    { <<"c", "o", "u", "r", "s", "e", " ", "e", "s", "s", "e", "n", "t", "i", "a", "l", "s">>,
      <<"m", "i", "c", "r", "o", "s", "o", "f", "t", " ", "t", "e", "a", "m", "s">>,
      <<"l", "i", "b", "r", "a", "r", "y", " ", "r", "e", "s", "e", "a", "r", "c", "h">>,
      <<"l", "i", "b", "r", "a", "r", "y", " ", "g", "u", "i", "d", "e">>,
      <<"i", "n", "s", "t", "r", "u", "c", "t", "i", "o", "n", " ", "g", "u", "i", "d", "e">>,
      <<"g", "e", "t", "t", "i", "n", "g", " ", "s", "t", "a", "r", "t", "e", "d">>,
      <<"s", "y", "l", "l", "a", "b", "u", "s">>,
      <<"r", "e", "s", "o", "u", "r", "c", "e", "s">>,
      <<"h", "o", "w", " ", "t", "o">>,
      <<"o", "r", "i", "e", "n", "t", "a", "t", "i", "o", "n">> }
MarkerWords == {<<"w", "e", "e", "k">>, <<"c", "h", "a", "p", "t", "e", "r">>, <<"m", "o", "d", "u", "l", "e">>}

\* the container's name contains a denylist term, or a marker, whatever the case
Denylisted(m) ==
    \E term \in DenylistTerms : HasPhrase(Get(m, "name", <<>>), term)
HasMarker(m) ==
    \E word \in MarkerWords : HasPhrase(Get(m, "name", <<>>), word)

\* the container exposes an unlock instant, and that instant
HasUnlockInstant(m) ==
    Truthy(Get(m, "unlock_at", None)) /\ StrptimeParse(m.unlock_at).ok
UnlockInstant(m) == Strptime(m.unlock_at)

\* the cutoff instant: the deadline of the assessment
CutoffOfExam == InstantOf(exam_date)

\* the container is among those get_modules_before_exam returned
Included(m) == \E i \in 1..Len(modules_before_exam) : modules_before_exam[i] = m

\* the container may contribute content: it is not denylisted, and its unlock
\* instant is before the cutoff or, without such an instant, its name has a marker
Eligible(m) ==
    /\ ~Denylisted(m)
    /\ IF HasUnlockInstant(m) THEN UnlockInstant(m) < CutoffOfExam ELSE HasMarker(m)

\* C17: every content item of the result comes from a container that is not
\* denylisted and that has an unlock instant strictly before the cutoff instant
\* or, having none, a name with a week, chapter or module marker
C17_ContentOnlyFromEligible ==
    pc = "curated" =>
        \A c \in 1..Len(all_content) :
            \E i \in 1..Len(all_modules) :
                /\ Get(all_modules[i], "name", <<"M", "o", "d", "u", "l", "e">>) = all_content[c].module
                /\ Eligible(all_modules[i])

\* C18: a container whose name contains a denylist term is not among the
\* containers returned and gives no content item, whatever its unlock_at and
\* whatever markers its name has
C18_DenylistedExcluded ==
    pc \in {"modules", "curated"} =>
        \A i \in 1..Len(all_modules) :
            Denylisted(all_modules[i]) =>
                /\ ~Included(all_modules[i])
                /\ \A c \in 1..Len(all_content) :
                      all_content[c].module # all_modules[i].name

\* C18 witness: a denylisted container with a week marker that unlocked before
\* the exam was left out, next to a container whose content was taken
C18_Witness ==
    /\ pc = "curated"
    /\ Len(all_modules) = 2
    /\ Denylisted(all_modules[1])
    /\ HasMarker(all_modules[1])
    /\ HasUnlockInstant(all_modules[1])
    /\ UnlockInstant(all_modules[1]) < CutoffOfExam
    /\ Included(all_modules[2])
    /\ Len(modules_before_exam) = 1
    /\ all_content # <<>>

\* C19: a container that is not denylisted and exposes an unlock instant is
\* returned if and only if that instant is strictly before the cutoff instant
C19_DatedIncludedIffBefore ==
    (pc = "modules" /\ status_code = 200) =>
        \A i \in 1..Len(all_modules) :
            (~Denylisted(all_modules[i]) /\ HasUnlockInstant(all_modules[i])) =>
                (Included(all_modules[i]) <=> UnlockInstant(all_modules[i]) < CutoffOfExam)

\* C20: a container that is not denylisted and has no usable unlock instant is
\* returned if and only if its name contains a week, chapter or module marker
C20_UndatedIncludedIffMarker ==
    (pc = "modules" /\ status_code = 200) =>
        \A i \in 1..Len(all_modules) :
            (~Denylisted(all_modules[i]) /\ ~HasUnlockInstant(all_modules[i])) =>
                (Included(all_modules[i]) <=> HasMarker(all_modules[i]))

---------------------------------------------------------------------------
(* Properties of the curation result and of the question list *)

\* C21: in the result of get_all_content_before_exam no two content items have
\* cleaned text with the same first 100 characters
C21_NoSharedPrefixInResult ==
    pc = "curated" =>
        \A i \in 1..Len(all_content) : \A j \in 1..Len(all_content) :
            i < j => Prefix(all_content[i].content) # Prefix(all_content[j].content)

\* the kinds of module item that carry text, and the cleaned text the server
\* gives for an item
TextKinds == {<<"P", "a", "g", "e">>, <<"A", "s", "s", "i", "g", "n", "m", "e", "n", "t">>, <<"D", "i", "s", "c", "u", "s", "s", "i", "o", "n">>}
BodyKey(item) ==
    IF item.type = <<"P", "a", "g", "e">> THEN "body"
    ELSE IF item.type = <<"A", "s", "s", "i", "g", "n", "m", "e", "n", "t">> THEN "description"
    ELSE "message"
FetchedText(item) ==
    IF item.answer.status_code = 200
    THEN clean_html(Get(item.answer.json, BodyKey(item), <<>>))
    ELSE <<>>

\* C22: for every Page, Assignment or Discussion item of a returned container
\* whose body is served with non-empty cleaned text, the result has a content
\* item of that container and kind with that text
C22_EveryTextItemIsInResult ==
    pc = "curated" =>
        \A m \in 1..Len(modules_before_exam) :
            LET items == Get(modules_before_exam[m], "items", <<>>)
            IN  \A k \in 1..Len(items) :
                    (items[k].type \in TextKinds /\ FetchedText(items[k]) # <<>>) =>
                        \E c \in 1..Len(all_content) :
                            /\ all_content[c].content = FetchedText(items[k])
                            /\ all_content[c].type = items[k].type
                            /\ all_content[c].module = modules_before_exam[m].name

\* a container record is malformed: its name or its items are null
Malformed(m) == Get(m, "name", <<>>) = None \/ Get(m, "items", <<>>) = None

\* the containers of the response that are well formed and that the selection
\* rule of get_modules_before_exam takes, in order
RECURSIVE TakenWellFormed(_)
TakenWellFormed(modules) ==
    IF modules = <<>> THEN <<>>
    ELSE (IF ~Malformed(Head(modules)) /\ Appends(Head(modules), exam_date)
          THEN <<Head(modules)>> ELSE <<>>)
         \o TakenWellFormed(Tail(modules))

\* C23: no exception leaves get_all_content_before_exam, and a malformed
\* container is skipped alone: the content of every other container the
\* selection takes is returned
C23_PartialFailureSkipsOnlyThatUnit ==
    /\ pc # "curation raised"
    /\ pc = "curated" => all_content = ContentLoop(TakenWellFormed(all_modules))

\* the cleaned question text of a stored entry: the text before the options,
\* which a line feed starts (cleaned text has no line feed)
QuestionText(entry) ==
    LET feeds == {i \in 1..Len(entry.question) : entry.question[i] = "\n"}
    IN  IF feeds = {} THEN entry.question
        ELSE SubSeq(entry.question, 1, (CHOOSE i \in feeds : \A k \in feeds : i <= k) - 1)

\* C30: the list of get_quiz_questions never holds two entries whose cleaned
\* question text has the same first 100 characters
C30_NoTwoQuestionsSharePrefix ==
    \A i \in 1..Len(all_quiz_questions) : \A j \in 1..Len(all_quiz_questions) :
        i < j => Prefix(QuestionText(all_quiz_questions[i]))
                     # Prefix(QuestionText(all_quiz_questions[j]))

---------------------------------------------------------------------------
(* Properties of the action plan parser *)

\* everything after the first ACTION_PLAN: marker of a text that has one
AfterPlanMarker(s) ==
    SubSeq(s, FindFrom(MarkerPlan, s, 1) + Len(MarkerPlan), Len(s))

\* C26: a response without the ACTION_PLAN: marker is the action plan as a
\* whole, with no tips; in a response with that marker and without the TIPS:
\* marker, everything after ACTION_PLAN: is the action plan (texts are compared
\* without their surrounding whitespace)
C26_MissingMarkerDegrades ==
    (pc = "plan returned" /\ ai_answer.kind = "content") =>
        /\ ~Contains(MarkerPlan, ai_answer.content) =>
              /\ ai_plan.action_plan = Strip(ai_answer.content)
              /\ ai_plan.tips = <<>>
        /\ (Contains(MarkerPlan, ai_answer.content)
            /\ ~Contains(MarkerTips, ai_answer.content)) =>
              ai_plan.action_plan = Strip(AfterPlanMarker(ai_answer.content))

---------------------------------------------------------------------------
(* Properties of the run: study guides, frame of the work items, failure *)

\* the calls of generate_study_guide made for the assignment at position a
CallsFor(a) == {k \in 1..Len(generate_calls) : generate_calls[k].assignment = a}

\* the entries appended to study_guides_generated for the assignment at position a
EntriesFor(a) == {k \in CallsFor(a) : generate_calls[k].output_path # None}

\* C29: in one run, study guide generation is invoked at most once for each
\* major assessment, and at most one entry is appended for it, however many
\* instances have a course of its course's name
C29_GuideGeneratedAtMostOnce ==
    \A a \in 1..Len(due_soon) :
        /\ Cardinality(CallsFor(a)) <= 1
        /\ Cardinality(EntriesFor(a)) <= 1

\* the fields the collector sets
SourceKeys == {"name", "due_at", "points_possible", "course_name", "html_url", "description"}

\* C28: the work items leave the collector with the source fields only, and
\* once filter_due_next_3_days has returned no stage of the run changes a field
\* of a work item
C28_ItemsFrozenAfterFilter ==
    [][ /\ pc = "collected" =>
            \A k \in 1..Len(all_assignments) : DOMAIN all_assignments[k] = SourceKeys
        /\ pc # "collected" => UNCHANGED <<all_assignments, due_soon>> ]_vars

C28_Witness ==
    /\ pc = "exited"
    /\ exit_status = 0
    /\ study_guides_generated # <<>>
    /\ Len(due_soon) = 2
    /\ \A k \in 1..Len(due_soon) : DOMAIN due_soon[k] = SourceKeys \cup {"due_datetime_parsed", "due_date_parsed"}
    /\ Len(notifications) >= 2

\* the failure notifications attempted
FailureSends == {k \in 1..Len(notifications) : notifications[k] = "failure"}

\* C24: when an error left main(), exactly one failure notification is
\* attempted and the process ends with status 1, also when that notification
\* failed; without an error none is attempted and the status is 0
C24_OneFailureNotificationThenExit ==
    /\ pc \in {"failure notified", "exited"} /\ main_error # "" =>
            /\ Cardinality(FailureSends) = 1
            /\ notifications[Len(notifications)] = "failure"
    /\ pc = "exited" => exit_status = (IF main_error # "" THEN 1 ELSE 0)
    /\ pc = "returned" => main_error = ""
    /\ main_error = "" => FailureSends = {}
    /\ pc # "exited" => exit_status = -1

C24_Witness ==
    /\ pc = "exited"
    /\ exit_status = 1
    /\ main_error = "TypeError"
    /\ notifications = <<"failure">>
    /\ ~send_ok

---------------------------------------------------------------------------
(* Properties of the bot *)

\* the subprocess had not finished when the time limit had elapsed since its start
UnfinishedAtLimit ==
    /\ process.state # "none"
    /\ clock > PipelineTimeout
    /\ process.finished_at = -1 \/ process.finished_at > PipelineTimeout

\* C25: a pipeline run is capped at 300 seconds: run_pipeline is not still
\* blocked on a running subprocess after the limit, also when the subprocess
\* keeps its output open and never exits; for a subprocess that had not
\* finished at the limit it returns the failure with the timeout message and
\* the subprocess is killed; and no update starts more than one run
C25_PipelineRunIsCapped ==
    /\ pc \in {"streaming", "waiting"} /\ process.state = "running" => clock <= PipelineTimeout
    /\ pc = "pipeline returned" /\ UnfinishedAtLimit =>
            /\ process.state = "killed"
            /\ result = [success |-> FALSE, stderr |-> TimedOutMessage]
    /\ Len(pipeline_runs) <= updates_handled

\* C27: every reply goes to the configured chat and every pipeline run was
\* started by an update of the configured chat
C27_OnlyAuthorizedChatServed ==
    /\ \A k \in 1..Len(replies) : DecimalStr(replies[k].chat) = TELEGRAM_CHAT_ID
    /\ \A k \in 1..Len(pipeline_runs) : DecimalStr(pipeline_runs[k]) = TELEGRAM_CHAT_ID

=============================================================================
